---------------------------- MODULE Spec2Model ----------------------------
(***************************************************************************)
(* Model of the abuse-protection and acquisition engine of the media       *)
(* downloader: the sliding-window rate limiter (src/lib/rate-limiter.ts),  *)
(* the captcha issuer (src/lib/captcha.ts), the TTL cache                  *)
(* (src/lib/cache.ts), the admission part of POST /api/download and the    *)
(* strategy chain of fetchStories (src/lib/instagram-scraper.ts).          *)
(*                                                                         *)
(* Time is Date.now() in milliseconds.  Strings that the code converts     *)
(* (toLowerCase, trim, parseInt) are sequences of one-character strings.   *)
(***************************************************************************)
EXTENDS Integers, Sequences, FiniteSets, TLC

VARIABLES
    now,        \* Date.now()
    entries,    \* RateLimiter.entries of each limiter instance
    rlResult,   \* the RateLimitResult returned by the last check()
    rlHist,     \* history of the calls made on each record (for the properties)
    captchaStore, \* captchaStore of captcha.ts
    capResult,  \* the CaptchaValidation returned by the last validateCaptcha()
    capHist,    \* per token: what was issued and how often it validated (for the properties)
    dlResponse, \* the answer of the admission part of the last POST /api/download
    client,     \* the page with its captcha dialog: where the caller stands
    served,     \* POST /api/download requests of other callers served so far
    caches,     \* the Map of each InMemoryCache instance
    cacheResult, \* what the last get/has/delete/size or story lookup returned
    cacheHist,  \* per instance and key: the last set() (for the properties)
    storiesHist, \* per handle: the last cacheStories() (for the properties)
    fetch,      \* the fetchStories call in progress: where it stands, the strategies called
    dl,         \* the downloadStory call in progress: the item chosen, the transfer, the result
    route,      \* the request a story handler is serving: the methods tried, the response
    parse,      \* the last call of a media-list parser: the raw items and the items returned
    pending,    \* the suspending step a fetchStories or downloadStory call is waiting on
    rapidCall   \* the fetchStoriesViaRapidAPI call in progress: the attempts made, the result

rlVars == <<entries, rlResult, rlHist>>
capVars == <<captchaStore, capResult, capHist>>
admVars == <<dlResponse, client, served>>
acqVars == <<caches, cacheResult, cacheHist, storiesHist, fetch>>
toolVars == <<parse, pending, rapidCall>>
orchVars == <<dl, route, toolVars>>
vars == <<now, entries, rlResult, rlHist, captchaStore, capResult, capHist,
          dlResponse, client, served, caches, cacheResult, cacheHist,
          storiesHist, fetch, dl, route, parse, pending, rapidCall>>

-----------------------------------------------------------------------------
(* Helpers *)

\* no instant
NoTime == 0 - 1

Max(a, b) == IF a >= b THEN a ELSE b
Min(a, b) == IF a <= b THEN a ELSE b

RECURSIVE SeqMax(_, _)
\* Math.max(...s, floor)
SeqMax(s, floor) == IF s = <<>> THEN floor ELSE SeqMax(Tail(s), Max(Head(s), floor))

\* Math.ceil(a / b) for b > 0
CeilDiv(a, b) == -((-a) \div b)

-----------------------------------------------------------------------------
(* Rate limiter: configuration of the two instances *)

DownloadWindowMs == 60000
DownloadMaxRequests == 10
DownloadBlockDurationMs == 300000
ApiWindowMs == 60000
ApiMaxRequests == 30
ApiBlockDurationMs == 120000
\* failureCount from which a rejection asks for a captcha
CaptchaThreshold == 3

Limiters == {"download", "instagramApi"}

Config(l) ==
    IF l = "download"
    THEN [windowMs |-> DownloadWindowMs, maxRequests |-> DownloadMaxRequests,
          blockDurationMs |-> DownloadBlockDurationMs]
    ELSE [windowMs |-> ApiWindowMs, maxRequests |-> ApiMaxRequests,
          blockDurationMs |-> ApiBlockDurationMs]

Identifiers == {"1.2.3.4", "unknown"}

NoEntry == [none |-> TRUE]

\* variant: a record that starts blocked
NewEntry_Blocked ==
    [timestamps |-> <<>>, blocked |-> TRUE,
     blockedUntil |-> 8 * DownloadBlockDurationMs, failureCount |-> 0]

NewEntry == [timestamps |-> <<>>, blocked |-> FALSE, blockedUntil |-> 0, failureCount |-> 0]

NoResult == [none |-> TRUE]

\* entry.timestamps.filter(ts => ts > windowStart)
Prune(timestamps, windowStart) == SelectSeq(timestamps, LAMBDA ts : ts > windowStart)

\* variant: the limit compared with > instead of >=
OverLimit_Strict(timestamps, cfg) == Len(timestamps) > cfg.maxRequests

\* entry.timestamps.length >= this.config.maxRequests
OverLimit(timestamps, cfg) == Len(timestamps) >= cfg.maxRequests

\* variant: the captcha asked for one block late
RequireCaptcha_Late(e) == e.failureCount > CaptchaThreshold

\* entry.failureCount >= 3
RequireCaptcha(e) == e.failureCount >= CaptchaThreshold

\* variant: the block still in force at the instant blockedUntil
StillBlocked_Inclusive(e, t) == e.blocked /\ t <= e.blockedUntil

\* entry.blocked && now < entry.blockedUntil
StillBlocked(e, t) == e.blocked /\ t < e.blockedUntil

\* variant: a block that ran out takes the failure count with it
Unblock_ClearsFailures(e, t) ==
    IF e.blocked /\ t >= e.blockedUntil
    THEN [e EXCEPT !.blocked = FALSE, !.timestamps = <<>>, !.failureCount = 0]
    ELSE e

\* if (entry.blocked && now >= entry.blockedUntil) { blocked = false; timestamps = [] }
Unblock(e, t) ==
    IF e.blocked /\ t >= e.blockedUntil
    THEN [e EXCEPT !.blocked = FALSE, !.timestamps = <<>>]
    ELSE e

\* variant: the request that is refused is recorded all the same
BlockNow_Counts(e, cfg, t) ==
    LET e2 == [e EXCEPT !.failureCount = @ + 1, !.blocked = TRUE,
                        !.blockedUntil = t + cfg.blockDurationMs,
                        !.timestamps = Append(@, t)]
    IN [entry  |-> e2,
        result |-> [allowed |-> FALSE, remaining |-> 0,
                    resetIn |-> CeilDiv(cfg.blockDurationMs, 1000),
                    requireCaptcha |-> RequireCaptcha(e2), blocked |-> TRUE]]

\* the over-limit branch of check(): a new block
BlockNow(e, cfg, t) ==
    LET e2 == [e EXCEPT !.failureCount = @ + 1, !.blocked = TRUE,
                        !.blockedUntil = t + cfg.blockDurationMs]
    IN [entry  |-> e2,
        result |-> [allowed |-> FALSE, remaining |-> 0,
                    resetIn |-> CeilDiv(cfg.blockDurationMs, 1000),
                    requireCaptcha |-> RequireCaptcha(e2), blocked |-> TRUE]]

\* variant: remaining computed before the request is recorded
Record_RemainingBefore(e, cfg, t) ==
    LET ts == Append(e.timestamps, t)
    IN [entry  |-> [e EXCEPT !.timestamps = ts],
        result |-> [allowed |-> TRUE, remaining |-> cfg.maxRequests - Len(e.timestamps),
                    resetIn |-> CeilDiv(ts[1] + cfg.windowMs - t, 1000),
                    requireCaptcha |-> FALSE, blocked |-> FALSE]]

\* the last part of check(): record the request
Record(e, cfg, t) ==
    LET ts == Append(e.timestamps, t)
        oldestTimestamp == IF ts[1] # 0 THEN ts[1] ELSE t
    IN [entry  |-> [e EXCEPT !.timestamps = ts],
        result |-> [allowed |-> TRUE, remaining |-> cfg.maxRequests - Len(ts),
                    resetIn |-> CeilDiv(oldestTimestamp + cfg.windowMs - t, 1000),
                    requireCaptcha |-> FALSE, blocked |-> FALSE]]

\* variant: a call made during a block starts the block again
Refused_Extends(e, cfg, t) ==
    [entry  |-> [e EXCEPT !.blockedUntil = t + cfg.blockDurationMs],
     result |-> [allowed |-> FALSE, remaining |-> 0,
                 resetIn |-> CeilDiv(e.blockedUntil - t, 1000),
                 requireCaptcha |-> RequireCaptcha(e), blocked |-> TRUE]]

\* the blocked branch of check(): the call refused, the record as it was
Refused(e, cfg, t) ==
    [entry  |-> e,
     result |-> [allowed |-> FALSE, remaining |-> 0,
                 resetIn |-> CeilDiv(e.blockedUntil - t, 1000),
                 requireCaptcha |-> RequireCaptcha(e), blocked |-> TRUE]]

\* check(identifier) on the record e0 (a new one when the map had none) at time t
CheckEntry(e0, cfg, t) ==
    IF StillBlocked(e0, t)
    THEN Refused(e0, cfg, t)
    ELSE LET e1 == Unblock(e0, t)
             e2 == [e1 EXCEPT !.timestamps = Prune(e1.timestamps, t - cfg.windowMs)]
         IN IF OverLimit(e2.timestamps, cfg)
            THEN BlockNow(e2, cfg, t)
            ELSE Record(e2, cfg, t)

EntryOrNew(l, id) == IF entries[l][id] = NoEntry THEN NewEntry ELSE entries[l][id]

\* variant: the timestamps kept
ResetEntry_KeepTimestamps(e) ==
    IF e = NoEntry THEN NoEntry
    ELSE [e EXCEPT !.failureCount = 0, !.blocked = FALSE, !.blockedUntil = 0]

\* resetFailures(identifier): the record after the call
ResetEntry(e) ==
    IF e = NoEntry THEN NoEntry
    ELSE [e EXCEPT !.failureCount = 0, !.blocked = FALSE, !.blockedUntil = 0,
                   !.timestamps = <<>>]

\* variant: the record deleted as soon as its age reaches maxAge
Purged_AtMaxAge(e, cfg, t) ==
    LET maxAge == cfg.windowMs + cfg.blockDurationMs
        lastActivity == SeqMax(e.timestamps, e.blockedUntil)
    IN t - lastActivity >= maxAge

\* cleanup(): whether the sweep deletes the record
Purged(e, cfg, t) ==
    LET maxAge == cfg.windowMs + cfg.blockDurationMs
        lastActivity == SeqMax(e.timestamps, e.blockedUntil)
    IN t - lastActivity > maxAge

\* getStatus(identifier)
GetStatus(l, id, t) ==
    LET cfg == Config(l)
        e == entries[l][id]
    IN IF e = NoEntry
       THEN [requestsInWindow |-> 0, remaining |-> cfg.maxRequests, blocked |-> FALSE,
             requireCaptcha |-> FALSE]
       ELSE LET valid == Prune(e.timestamps, t - cfg.windowMs)
            IN [requestsInWindow |-> Len(valid),
                remaining |-> Max(0, cfg.maxRequests - Len(valid)),
                blocked |-> e.blocked /\ t < e.blockedUntil,
                requireCaptcha |-> RequireCaptcha(e)]

-----------------------------------------------------------------------------------------------------------------------------------------------------
(* Strings, as sequences of one-character strings *)

DigitChars == <<"0", "1", "2", "3", "4", "5", "6", "7", "8", "9">>
IsDigit(c) == \E d \in 1..10 : DigitChars[d] = c
DigitValue(c) == (CHOOSE d \in 1..10 : DigitChars[d] = c) - 1
IsSpace(c) == c \in {" ", "\t", "\n"}

RECURSIVE TrimStart(_)
TrimStart(s) == IF s # <<>> /\ IsSpace(Head(s)) THEN TrimStart(Tail(s)) ELSE s

RECURSIVE TrimEnd(_)
TrimEnd(s) ==
    IF s # <<>> /\ IsSpace(s[Len(s)]) THEN TrimEnd(SubSeq(s, 1, Len(s) - 1)) ELSE s

\* String.prototype.trim
Trim(s) == TrimEnd(TrimStart(s))

\* String(n) for an integer n
RECURSIVE IntToString(_)
IntToString(n) ==
    IF n < 0 THEN <<"-">> \o IntToString(-n)
    ELSE IF n < 10 THEN <<DigitChars[n + 1]>>
    ELSE IntToString(n \div 10) \o <<DigitChars[(n % 10) + 1]>>

\* the numbers of the code: an integer, or NaN
Num(n) == [nan |-> FALSE, v |-> n]
NaN == [nan |-> TRUE, v |-> 0]

RECURSIVE DigitsPrefix(_, _)
\* the value of the longest prefix of decimal digits of s, continuing acc
DigitsPrefix(s, acc) ==
    IF s # <<>> /\ IsDigit(Head(s))
    THEN DigitsPrefix(Tail(s), 10 * acc + DigitValue(Head(s)))
    ELSE acc

\* parseInt(s, 10): leading white space, an optional sign, then the longest
\* prefix of digits; NaN when there is no digit
ParseInt(s) ==
    LET t == TrimStart(s)
        signed == t # <<>> /\ Head(t) \in {"-", "+"}
        body == IF signed THEN Tail(t) ELSE t
    IN IF body = <<>> \/ ~IsDigit(Head(body)) THEN NaN
       ELSE IF signed /\ Head(t) = "-" THEN Num(-DigitsPrefix(body, 0))
       ELSE Num(DigitsPrefix(body, 0))

-----------------------------------------------------------------------------
(* Captcha issuer *)

CAPTCHA_TTL == 300000
CLEANUP_INTERVAL == 60000

\* tokens: the k-th distinct value of crypto.randomBytes(32); 0 is the empty string
MaxTokens == 2
Tokens == 1..MaxTokens
EmptyToken == 0

\* the values Math.floor(Math.random() * n) is drawn from, sampled from the low end
MaxRandomSample == 1
RandomBelow(n) == {k \in 0..(n - 1) : k < MaxRandomSample}

\* op.fn(num1, num2)
Apply(symbol, a, b) ==
    CASE symbol = "+" -> a + b
      [] symbol = "-" -> a - b
      [] symbol = "x" -> a * b

\* generateMathCaptcha(): the challenges it can return
MathCaptchas ==
    LET operands(symbol) ==
            CASE symbol = "x" ->
                    {<<a + 1, b + 1>> : a \in RandomBelow(10), b \in RandomBelow(10)}
              [] symbol = "-" ->
                    UNION {{<<a + 10, b>> : b \in RandomBelow(a + 10)} : a \in RandomBelow(50)}
              [] symbol = "+" ->
                    {<<a + 1, b + 1>> : a \in RandomBelow(50), b \in RandomBelow(50)}
    IN UNION {{[question |-> <<p[1], symbol, p[2]>>, answer |-> Apply(symbol, p[1], p[2])] :
                  p \in operands(symbol)} : symbol \in {"+", "-", "x"}}

NoCaptcha == [none |-> TRUE]

\* generateCaptcha(): the entry stored under the new token
NewCaptcha(mc, t) == [answer |-> mc.answer, expiresAt |-> t + CAPTCHA_TTL, used |-> FALSE]

\* generateCaptcha(): the challenge returned
Challenge(token, mc) ==
    [token |-> token, question |-> mc.question, expiresIn |-> CAPTCHA_TTL \div 1000]

\* userAnswer as it arrives in a JSON body
StringAnswer(chars) == [kind |-> "string", chars |-> chars, value |-> 0]
NumberAnswer(n) == [kind |-> "number", chars |-> <<>>, value |-> n]
NullAnswer == [kind |-> "null", chars |-> <<>>, value |-> 0]
AbsentAnswer == [kind |-> "undefined", chars |-> <<>>, value |-> 0]

\* typeof userAnswer === 'string' ? parseInt(userAnswer.trim(), 10) : userAnswer
ParsedAnswer(userAnswer) ==
    CASE userAnswer.kind = "string" -> [kind |-> "number"] @@ ParseInt(Trim(userAnswer.chars))
      [] userAnswer.kind = "number" -> [kind |-> "number"] @@ Num(userAnswer.value)
      [] OTHER -> [kind |-> userAnswer.kind] @@ Num(0)

\* isNaN(parsedAnswer): Number(null) is 0, Number(undefined) is NaN
IsNaN(parsed) == parsed.nan \/ parsed.kind = "undefined"

\* parsedAnswer === entry.answer
StrictEquals(parsed, n) == parsed.kind = "number" /\ ~parsed.nan /\ parsed.v = n

\* Date.now() > entry.expiresAt
Expired(entry, t) == t > entry.expiresAt

\* a successful branch that leaves the entry in the store
Consume_Kept(store, token) == store

\* the successful branch of validateCaptcha: used = true, entry deleted
Consume(store, token) == [store EXCEPT ![token] = NoCaptcha]

\* variant: a wrong answer costs the entry
WrongAnswer_Deletes(store, token) == [store EXCEPT ![token] = NoCaptcha]

\* the last branch of validateCaptcha: the store after a wrong answer
WrongAnswer(store, token) == store

\* validateCaptcha(token, userAnswer) at time t: the store after it and its result
ValidateCaptcha(store, token, userAnswer, t) ==
    LET entry == IF token \in DOMAIN store THEN store[token] ELSE NoCaptcha
        parsedAnswer == ParsedAnswer(userAnswer)
    IN IF entry = NoCaptcha
       THEN [store |-> store,
             result |-> [valid |-> FALSE, error |-> "Captcha invalido ou expirado"]]
       ELSE IF entry.used
       THEN [store |-> [store EXCEPT ![token] = NoCaptcha],
             result |-> [valid |-> FALSE, error |-> "Este captcha ja foi utilizado"]]
       ELSE IF Expired(entry, t)
       THEN [store |-> [store EXCEPT ![token] = NoCaptcha],
             result |-> [valid |-> FALSE, error |-> "Captcha expirado"]]
       ELSE IF IsNaN(parsedAnswer)
       THEN [store |-> store,
             result |-> [valid |-> FALSE, error |-> "Resposta invalida"]]
       ELSE IF StrictEquals(parsedAnswer, entry.answer)
       THEN [store |-> Consume(store, token),
             result |-> [valid |-> TRUE, error |-> "none"]]
       ELSE [store |-> WrongAnswer(store, token),
             result |-> [valid |-> FALSE, error |-> "Resposta incorreta"]]

\* the sweep of captcha.ts
SweepCaptchas(store, t) ==
    [k \in DOMAIN store |->
        IF store[k] # NoCaptcha /\ t > store[k].expiresAt THEN NoCaptcha ELSE store[k]]

\* what a caller sends for the number n
AnswerFormats == {"digits", "padded", "trailing", "number"}
FormatAnswer(n, fmt) ==
    CASE fmt = "digits"   -> StringAnswer(IntToString(n))
      [] fmt = "padded"   -> StringAnswer(<<" ">> \o IntToString(n) \o <<" ">>)
      [] fmt = "trailing" -> StringAnswer(IntToString(n) \o <<"a">>)
      [] fmt = "number"   -> NumberAnswer(n)

\* answers that denote no number
Garbage == {StringAnswer(<<>>), StringAnswer(<<"a", "b">>), NullAnswer}

\* what the user works out from the question shown
Solve(question) ==
    CASE question[2] = "+" -> question[1] + question[3]
      [] question[2] = "-" -> question[1] - question[3]
      [] question[2] = "x" -> question[1] * question[3]

(* History per token, kept for the properties only: whether it was issued, *)
(* when, the answer to its question, and how many validations returned     *)
(* valid (capped).                                                         *)
NotIssued == [issued |-> FALSE, expected |-> 0, issuedAt |-> NoTime, valids |-> 0]

\* the numbers callers answer with: a wrong one and the answers of the issued questions
AnswerNumbers == {0} \cup {capHist[k].expected : k \in {j \in Tokens : capHist[j].issued}}

-----------------------------------------------------------------------------
(* History of the calls made on a record, kept for the properties only.    *)
(* calls: check() calls since the record was created or reset (capped);    *)
(* firstAt: time of the first of them; blocks: rejections that started a   *)
(* block since then; rejAt, rejOldest: time and oldest recorded timestamp  *)
(* of the latest such rejection; later: checks made since that rejection   *)
(* (capped); after: those of them made at or after the instant             *)
(* rejAt + blockDurationMs (capped); reset: whether resetFailures() was    *)
(* the last thing to make the record fresh, and what it found: no record   *)
(* ("absent"), a record that was blocked or one that was not ("open");     *)
(* "no" from the call after the maxRequests-th that followed it.           *)

FreshHist == [calls |-> 0, firstAt |-> NoTime, blocks |-> 0,
              rejAt |-> NoTime, rejOldest |-> NoTime, later |-> 0, after |-> 0,
              reset |-> "no"]

\* the history after resetFailures() on the record e
ResetHist(e) ==
    [FreshHist EXCEPT !.reset = IF e = NoEntry THEN "absent"
                                ELSE IF e.blocked THEN "blocked" ELSE "open"]

HistAfterCheck(h, e0, e1, cfg, t, res) ==
    LET newBlock == ~res.allowed /\ e1.blockedUntil # e0.blockedUntil
        h1 == [h EXCEPT !.calls = Min(@ + 1, cfg.maxRequests + 2),
                        !.firstAt = IF h.calls = 0 THEN t ELSE @,
                        !.reset = IF @ = "absent" \/ h.calls >= cfg.maxRequests
                                  THEN "no" ELSE @]
    IN IF newBlock
       THEN [h1 EXCEPT !.blocks = @ + 1, !.rejAt = t,
                       !.rejOldest = IF e1.timestamps = <<>> THEN t
                                     ELSE Head(e1.timestamps),
                       !.later = 0, !.after = 0]
       ELSE IF h.rejAt = NoTime THEN h1
       ELSE [h1 EXCEPT !.later = 1,
                       !.after = IF t >= h.rejAt + cfg.blockDurationMs
                                 THEN Min(@ + 1, 2) ELSE @]

-----
(* The clock *)

\* Date.now() when the process starts: any instant later than every age the
\* code compares against
Epoch == 4 * DownloadBlockDurationMs

\* the instants at which the rate limiter is exercised: half windows after
\* each multiple of the block duration
MaxBlockSpans == 2
MaxHalfWindows == 2
RlInstants ==
    {Epoch + j * DownloadBlockDurationMs + k * (DownloadWindowMs \div 2) :
        j \in 0..MaxBlockSpans, k \in 0..MaxHalfWindows}

TickRl == /\ \E t \in RlInstants : t > now /\ now' = t
          /\ UNCHANGED <<rlVars, capVars, admVars, orchVars, acqVars>>

\* the instants at which the captcha issuer is exercised: multiples of the
\* captcha's life time and the milliseconds right after them
MaxTtlSpans == 1
MaxOffsetMs == 1
CaptchaInstants ==
    {Epoch} \cup {Epoch + j * CAPTCHA_TTL + o : j \in 1..MaxTtlSpans, o \in 0..MaxOffsetMs}

\* the instants at which the sweep of the rate limiter is exercised: the end
\* of a block that started at Epoch, the ages window + block duration after
\* it, and the milliseconds right after them
MaxSweepAges == 2
SweepInstants ==
    {Epoch + DownloadBlockDurationMs
         + k * (DownloadWindowMs + DownloadBlockDurationMs) + o :
        k \in 0..MaxSweepAges, o \in 0..MaxOffsetMs}

TickSweep == /\ \E t \in SweepInstants : t > now /\ now' = t
             /\ UNCHANGED <<rlVars, capVars, admVars, orchVars, acqVars>>

TickCaptcha == /\ \E t \in CaptchaInstants : t > now /\ now' = t
               /\ UNCHANGED <<rlVars, capVars, admVars, orchVars, acqVars>>

-----------------------------------------------------------------------------
(* Rate limiter operations *)

\* variant: one record shared by every identifier of the limiter
Stored_Shared(map, id, entry) == [i \in DOMAIN map |-> entry]

\* this.entries.set(identifier, entry), and the record of the identifier
\* changed in place: the Map of the instance with the record of id replaced
Stored(map, id, entry) == [map EXCEPT ![id] = entry]

Check(l, id) ==
    LET cfg == Config(l)
        e0  == EntryOrNew(l, id)
        out == CheckEntry(e0, cfg, now)
    IN /\ entries' = [entries EXCEPT ![l] = Stored(@, id, out.entry)]
       /\ rlResult' = [lim |-> l, id |-> id, at |-> now] @@ out.result
       /\ rlHist' = [rlHist EXCEPT ![l][id] =
                        HistAfterCheck(rlHist[l][id], e0, out.entry, cfg, now, out.result)]
       /\ UNCHANGED <<now, capVars, admVars, orchVars, acqVars>>

ResetFailures(l, id) ==
    /\ entries' = [entries EXCEPT ![l][id] = ResetEntry(entries[l][id])]
    /\ rlHist' = [rlHist EXCEPT ![l][id] = ResetHist(entries[l][id])]
    /\ UNCHANGED <<now, rlResult, capVars, admVars, orchVars, acqVars>>

\* getStatus(identifier): the status returned, no record touched
GetStatusCall(l, id) ==
    /\ rlResult' = [lim |-> l, id |-> id, at |-> now, status |-> GetStatus(l, id, now)]
    /\ UNCHANGED <<now, entries, rlHist, capVars, admVars, orchVars, acqVars>>

\* the sweep started by the constructor's setInterval
Cleanup(l) ==
    /\ \E id \in Identifiers : entries[l][id] # NoEntry
    /\ entries' = [entries EXCEPT ![l] =
            [id \in Identifiers |->
                IF entries[l][id] # NoEntry /\ Purged(entries[l][id], Config(l), now)
                THEN NoEntry ELSE entries[l][id]]]
    /\ rlHist' = [rlHist EXCEPT ![l] =
            [id \in Identifiers |->
                IF entries[l][id] # NoEntry /\ Purged(entries[l][id], Config(l), now)
                THEN FreshHist ELSE rlHist[l][id]]]
    /\ UNCHANGED <<now, rlResult, capVars, admVars, orchVars, acqVars>>

-----------------------------------------------------------------------------
(* Captcha operations *)

\* what a caller submits: the answer as sent, and the number it stands for
AnswerInputs ==
    {[answer |-> FormatAnswer(n, f), denotes |-> Num(n)] : n \in AnswerNumbers, f \in AnswerFormats}
    \cup {[answer |-> g, denotes |-> NaN] : g \in Garbage}

NoInput == [answer |-> AbsentAnswer, denotes |-> NaN]

\* the record of a validateCaptcha() call: its result, and for the properties
\* how often the token had validated before, whether the answer given is the
\* answer to the token's question, whether the token's life time had run out,
\* whether the store held the token when the call was made, and whether the
\* call before it was refused for a wrong number
Validation(token, inp, result) ==
    LET h == IF token \in Tokens THEN capHist[token] ELSE NotIssued
    IN [valid |-> result.valid, error |-> result.error,
        stored |-> token \in Tokens /\ captchaStore[token] # NoCaptcha,
        prior |-> h.valids,
        retry |-> capResult # NoResult /\ capResult.error = "Resposta incorreta",
        correct |-> h.issued /\ inp.denotes = Num(h.expected),
        late |-> h.issued /\ now > h.issuedAt + CAPTCHA_TTL]

HistAfterValidation(token, result) ==
    IF result.valid /\ token \in Tokens
    THEN [capHist EXCEPT ![token].valids = Min(@ + 1, 2)]
    ELSE capHist

\* crypto.randomBytes(32): a token never issued before (tokens are numbered in
\* the order of their issue)
FreshTokens ==
    LET unissued == {k \in Tokens : ~capHist[k].issued}
    IN {k \in unissued : \A j \in unissued : k <= j}

\* generateCaptcha(): a fresh token, a question, the entry stored
Generate(token, mc) ==
    /\ token \in FreshTokens
    /\ captchaStore' = [captchaStore EXCEPT ![token] = NewCaptcha(mc, now)]
    /\ capHist' = [capHist EXCEPT ![token] =
                      [issued |-> TRUE, expected |-> Solve(mc.question),
                       issuedAt |-> now, valids |-> 0]]
    /\ UNCHANGED capResult

\* GET /api/captcha, from any caller
CaptchaGet ==
    /\ \E token \in Tokens, mc \in MathCaptchas : Generate(token, mc)
    /\ UNCHANGED <<now, rlVars, admVars, orchVars, acqVars>>

\* POST /api/captcha on the body {token, answer}: the call of validateCaptcha
CaptchaPostStep(token, inp) ==
    IF token = EmptyToken \/ inp.answer \in {AbsentAnswer, NullAnswer}
    THEN UNCHANGED capVars
    ELSE LET val == ValidateCaptcha(captchaStore, token, inp.answer, now)
         IN /\ captchaStore' = val.store
            /\ capResult' = Validation(token, inp, val.result)
            /\ capHist' = HistAfterValidation(token, val.result)

\* whether POST /api/captcha answers success for that body
CaptchaPostSucceeds(token, inp) ==
    /\ token # EmptyToken
    /\ inp.answer \notin {AbsentAnswer, NullAnswer}
    /\ ValidateCaptcha(captchaStore, token, inp.answer, now).result.valid

\* POST /api/captcha, from any caller
CaptchaPost ==
    /\ \E token \in Tokens \cup {EmptyToken}, inp \in AnswerInputs :
            CaptchaPostStep(token, inp)
    /\ UNCHANGED <<now, rlVars, admVars, orchVars, acqVars>>

\* the sweep of captcha.ts
CaptchaSweep ==
    /\ captchaStore' = SweepCaptchas(captchaStore, now)
    /\ captchaStore' # captchaStore
    /\ UNCHANGED <<now, rlVars, capResult, capHist, admVars, orchVars, acqVars>>

-----------------------------------------------------------------------------
(* POST /api/download: the admission of the request (the handler up to the  *)
(* point where it starts on the url)                                        *)

NoResponse == [none |-> TRUE]

\* the outcome of the admission for the body {captchaToken, captchaAnswer}:
\* the rate-limit check, then on a rejection the captcha
Admission(ip, token, inp) ==
    LET cfg == Config("download")
        e0  == EntryOrNew("download", ip)
        chk == CheckEntry(e0, cfg, now)
        val == ValidateCaptcha(captchaStore, token, inp.answer, now)
    IN IF chk.result.allowed
       THEN [check |-> chk, validated |-> FALSE, reset |-> FALSE,
             response |-> [status |-> 200, requireCaptcha |-> FALSE, error |-> "none"]]
       ELSE IF token # EmptyToken /\ inp.answer # AbsentAnswer
       THEN IF val.result.valid
            THEN [check |-> chk, validated |-> TRUE, reset |-> TRUE,
                  response |-> [status |-> 200, requireCaptcha |-> FALSE, error |-> "none"]]
            ELSE [check |-> chk, validated |-> TRUE, reset |-> FALSE,
                  response |-> [status |-> 429, requireCaptcha |-> TRUE,
                                error |-> val.result.error]]
       ELSE [check |-> chk, validated |-> FALSE, reset |-> FALSE,
             response |-> [status |-> 429,
                           requireCaptcha |-> chk.result.requireCaptcha,
                           error |-> "Limite de requisicoes atingido. Resolva o captcha para continuar."]]

\* the handler's effect on the limiter, the captcha store and its response
DownloadPostStep(ip, token, inp) ==
    LET cfg == Config("download")
        e0  == EntryOrNew("download", ip)
        adm == Admission(ip, token, inp)
        val == ValidateCaptcha(captchaStore, token, inp.answer, now)
    IN /\ entries' = [entries EXCEPT !["download"][ip] =
                        IF adm.reset THEN ResetEntry(adm.check.entry) ELSE adm.check.entry]
       /\ rlResult' = [lim |-> "download", id |-> ip, at |-> now] @@ adm.check.result
       /\ rlHist' = [rlHist EXCEPT !["download"][ip] =
                        IF adm.reset THEN ResetHist(adm.check.entry)
                        ELSE HistAfterCheck(rlHist["download"][ip], e0, adm.check.entry,
                                            cfg, now, adm.check.result)]
       /\ IF adm.validated
          THEN /\ captchaStore' = val.store
               /\ capResult' = Validation(token, inp, val.result)
               /\ capHist' = HistAfterValidation(token, val.result)
          ELSE UNCHANGED capVars
       /\ dlResponse' = adm.response

\* the requests of other callers that are followed
MaxPosts == 2

\* POST /api/download, from any caller behind the address
DownloadPost ==
    /\ served < MaxPosts
    /\ \E token \in Tokens \cup {EmptyToken}, inp \in AnswerInputs \cup {NoInput} :
            DownloadPostStep("1.2.3.4", token, inp)
    /\ served' = served + 1
    /\ UNCHANGED <<now, client, acqVars, orchVars>>

-----------------------------------------------------------------------------
(* The page and its captcha dialog, for one caller: handleDownload,         *)
(* CaptchaDialog.fetchCaptcha, CaptchaDialog.handleSubmit and               *)
(* handleCaptchaSuccess.  pc: idle, dialog (opened, challenge not yet       *)
(* loaded), challenge (question shown), retry (answer accepted, the         *)
(* download is being asked again with the token and the answer).            *)

NoChallenge == [none |-> TRUE]

IdleClient == [pc |-> "idle", captcha |-> NoChallenge, answer |-> NoInput, retried |-> 0]

\* what the user may type for the question shown
Typed(question) ==
    {IntToString(Solve(question)), <<" ">> \o IntToString(Solve(question)),
     IntToString(0), <<"a", "b">>, <<" ">>}

\* the caller's address
ClientIP == "1.2.3.4"

\* handleDownload(): the download asked without a captcha
ClientRequest ==
    /\ client.pc = "idle"
    /\ DownloadPostStep(ClientIP, EmptyToken, NoInput)
    /\ client' = IF dlResponse'.status = 429 /\ dlResponse'.requireCaptcha
                 THEN [IdleClient EXCEPT !.pc = "dialog"]
                 ELSE IdleClient
    /\ UNCHANGED <<now, served, acqVars, orchVars>>

\* fetchCaptcha(): GET /api/captcha when the dialog opens or refreshes
DialogFetch ==
    /\ client.pc = "dialog"
    /\ \E token \in Tokens, mc \in MathCaptchas :
          /\ Generate(token, mc)
          /\ client' = [client EXCEPT !.pc = "challenge",
                                      !.captcha = Challenge(token, mc)]
    /\ UNCHANGED <<now, rlVars, dlResponse, served, acqVars, orchVars>>

\* handleSubmit(): POST /api/captcha with the trimmed answer; on success
\* onSuccess(token, answer) starts the retry, otherwise the captcha is refreshed
DialogSubmit ==
    /\ client.pc = "challenge"
    /\ \E typed \in Typed(client.captcha.question) :
          /\ Trim(typed) # <<>>
          /\ LET inp == [answer |-> StringAnswer(Trim(typed)),
                         denotes |-> ParseInt(Trim(typed))]
             IN /\ CaptchaPostStep(client.captcha.token, inp)
                /\ client' = IF CaptchaPostSucceeds(client.captcha.token, inp)
                             THEN [client EXCEPT !.pc = "retry", !.answer = inp]
                             ELSE [IdleClient EXCEPT !.pc = "dialog"]
    /\ UNCHANGED <<now, rlVars, dlResponse, served, acqVars, orchVars>>

\* handleCaptchaSuccess(): handleDownload({token, answer})
ClientRetry ==
    /\ client.pc = "retry"
    /\ DownloadPostStep(ClientIP, client.captcha.token, client.answer)
    /\ client' = [IdleClient EXCEPT
                     !.pc = IF dlResponse'.status = 429 /\ dlResponse'.requireCaptcha
                            THEN "dialog" ELSE "idle",
                     !.retried = dlResponse'.status]
    /\ UNCHANGED <<now, served, acqVars, orchVars>>

-----------------------------------------------------------------------------
(* TTL cache (src/lib/cache.ts).  A Map is a function on the keys that are   *)
(* followed, NoCacheEntry where the Map has no entry.                        *)

USER_ID_TTL == 24 * 60 * 60 * 1000
STORY_URL_TTL == 2 * 60 * 60 * 1000
DOWNLOAD_RESULT_TTL == 30 * 60 * 1000

\* userIdCache, storyUrlCache, downloadResultCache
Instances == {"userId", "storyUrl", "downloadResult"}

\* the ttl the helper functions of an instance pass to set()
TtlOf(inst) ==
    CASE inst = "userId"         -> USER_ID_TTL
      [] inst = "storyUrl"       -> STORY_URL_TTL
      [] inst = "downloadResult" -> DOWNLOAD_RESULT_TTL

CacheTtls == {TtlOf(inst) : inst \in Instances}

\* handles as callers write them
Usernames == {<<"n", "a">>, <<"N", "A">>, <<"n", "b">>}

\* the keys followed in every Map
CacheKeys == Usernames

\* 'A'..'Z' with their lower-case letters, for the letters that occur
LowerOf == [c \in {"A", "N"} |-> IF c = "A" THEN "a" ELSE "n"]

\* String.prototype.toLowerCase()
ToLowerCase(s) == [i \in 1..Len(s) |-> IF s[i] \in DOMAIN LowerOf THEN LowerOf[s[i]] ELSE s[i]]

NoCacheEntry == [none |-> TRUE]
EmptyMap == [k \in CacheKeys |-> NoCacheEntry]

\* what get() returns for a miss: null
Miss == [miss |-> TRUE]

\* the values stored in each instance
UserIds == {[id |-> "1"], [id |-> "2"]}
\* StoryItem: the id, the address of the media and its kind; the id of the
\* second is part of the id of the first
StoryItem(id, url, mediaType) == [id |-> id, url |-> url, mediaType |-> mediaType]
Story1 == StoryItem(<<"1", "2">>, "u1", "video")
Story2 == StoryItem(<<"2">>, "u2", "image")
StoryLists == {<<Story1>>, <<Story1, Story2>>}
DownloadResults == {[success |-> TRUE, fileName |-> "f1"], [success |-> FALSE, fileName |-> "none"]}

\* StoryCache records: the list resolved at some instant
StoryData(stories, t) == [stories |-> stories, fetchedAt |-> t]

ValuesOf(inst, t) ==
    CASE inst = "userId"         -> UserIds
      [] inst = "storyUrl"       -> {StoryData(s, t) : s \in StoryLists \cup {<<>>}}
      [] inst = "downloadResult" -> DownloadResults

\* an entry that never expires
CacheExpired_Never(entry, t) == FALSE

\* Date.now() > entry.expiresAt
CacheExpired(entry, t) == t > entry.expiresAt

\* set(key, value, ttlMs) at time t
MapSet(map, key, value, ttlMs, t) ==
    [map EXCEPT ![key] = [value |-> value, expiresAt |-> t + ttlMs]]

\* get(key) at time t: the Map after it and the value returned
MapGet(map, key, t) ==
    LET entry == map[key]
    IN IF entry = NoCacheEntry
       THEN [map |-> map, value |-> Miss]
       ELSE IF CacheExpired(entry, t)
       THEN [map |-> [map EXCEPT ![key] = NoCacheEntry], value |-> Miss]
       ELSE [map |-> map, value |-> entry.value]

\* has(key): this.get(key) !== null
MapHas(map, key, t) ==
    LET got == MapGet(map, key, t)
    IN [map |-> got.map, value |-> got.value # Miss]

\* delete(key): whether there was an entry
MapDelete(map, key) ==
    [map |-> [map EXCEPT ![key] = NoCacheEntry], value |-> map[key] # NoCacheEntry]

\* size(): this.cache.size
MapSize(map) == Cardinality({k \in DOMAIN map : map[k] # NoCacheEntry})

\* variant: the sweep takes the entries at the instant they expire too
MapCleanup_AtExpiry(map, t) ==
    [k \in DOMAIN map |->
        IF map[k] # NoCacheEntry /\ t >= map[k].expiresAt THEN NoCacheEntry ELSE map[k]]

\* cleanup(): every entry with now > expiresAt deleted
MapCleanup(map, t) ==
    [k \in DOMAIN map |->
        IF map[k] # NoCacheEntry /\ t > map[k].expiresAt THEN NoCacheEntry ELSE map[k]]

(* History per key, kept for the properties only: the value, the instant   *)
(* and the ttl of the last set() that no delete() or clear() has followed,  *)
(* and the name the caller gave.                                            *)
NoSet == [value |-> Miss, at |-> NoTime, ttl |-> 0, as |-> <<>>]

FreshCacheHist == [k \in CacheKeys |-> NoSet]

\* where t lies with respect to the life time started by that set()
Age(h, t) ==
    CASE h.at = NoTime      -> "none"
      [] t - h.at < h.ttl   -> "before"
      [] t - h.at = h.ttl   -> "at"
      [] OTHER              -> "after"

\* the record of a get(): the value returned, and for the properties the
\* last set() of the key, its age, the names given to the get() and to that
\* set(), and whether the Map held an entry for the key before the call and
\* holds one after it
GetRecord(op, h, before, got, key, asked, t) ==
    [op |-> op, value |-> got.value, age |-> Age(h, t), expected |-> h.value,
     asked |-> asked, setAs |-> h.as,
     stored |-> before[key] # NoCacheEntry, counted |-> got.map[key] # NoCacheEntry]

\* the instants at which the caches are exercised: around the end of each ttl
CacheInstants ==
    {Epoch} \cup {Epoch + ttl + o : ttl \in CacheTtls, o \in 0..MaxOffsetMs}

TickCache ==
    /\ \E t \in CacheInstants : t > now /\ now' = t
    /\ UNCHANGED <<rlVars, capVars, admVars, orchVars, acqVars>>

\* the instances have a Map each and share nothing: they are followed one at
\* a time, the others being empty
InUse(inst) ==
    \A j \in Instances \ {inst} : caches[j] = EmptyMap /\ cacheHist[j] = FreshCacheHist

\* the keys the calls are made with: two that differ by their case only
OpKeys == {<<"n", "a">>, <<"N", "A">>}

CacheSet(inst) ==
    /\ InUse(inst)
    /\ \E key \in OpKeys, value \in ValuesOf(inst, now), ttl \in {TtlOf(inst)} :
          /\ caches' = [caches EXCEPT ![inst] = MapSet(@, key, value, ttl, now)]
          /\ cacheHist' = [cacheHist EXCEPT ![inst][key] =
                              [value |-> value, at |-> now, ttl |-> ttl, as |-> key]]
    /\ cacheResult' = NoResult
    /\ UNCHANGED <<now, rlVars, capVars, admVars, orchVars, storiesHist, fetch>>

CacheGet(inst) ==
    /\ InUse(inst)
    /\ \E key \in OpKeys :
          LET got == MapGet(caches[inst], key, now)
          IN /\ caches' = [caches EXCEPT ![inst] = got.map]
             /\ cacheResult' = GetRecord("get", cacheHist[inst][key], caches[inst],
                                         got, key, key, now)
    /\ UNCHANGED <<now, rlVars, capVars, admVars, orchVars, cacheHist, storiesHist, fetch>>

CacheHas(inst) ==
    /\ InUse(inst)
    /\ \E key \in OpKeys :
          LET got == MapHas(caches[inst], key, now)
          IN /\ caches' = [caches EXCEPT ![inst] = got.map]
             /\ cacheResult' = [op |-> "has", value |-> got.value]
    /\ UNCHANGED <<now, rlVars, capVars, admVars, orchVars, cacheHist, storiesHist, fetch>>

CacheDelete(inst) ==
    /\ InUse(inst)
    /\ \E key \in OpKeys :
          LET del == MapDelete(caches[inst], key)
          IN /\ caches' = [caches EXCEPT ![inst] = del.map]
             /\ cacheResult' = [op |-> "delete", value |-> del.value]
             /\ cacheHist' = [cacheHist EXCEPT ![inst][key] = NoSet]
    /\ UNCHANGED <<now, rlVars, capVars, admVars, orchVars, storiesHist, fetch>>

CacheClear(inst) ==
    /\ InUse(inst)
    /\ caches' = [caches EXCEPT ![inst] = EmptyMap]
    /\ cacheHist' = [cacheHist EXCEPT ![inst] = FreshCacheHist]
    /\ cacheResult' = NoResult
    /\ UNCHANGED <<now, rlVars, capVars, admVars, orchVars, storiesHist, fetch>>

CacheSize(inst) ==
    /\ InUse(inst)
    /\ cacheResult' = [op |-> "size", value |-> MapSize(caches[inst])]
    /\ UNCHANGED <<now, rlVars, capVars, admVars, orchVars, caches, cacheHist, storiesHist, fetch>>

\* the setInterval of the constructor
CacheCleanup(inst) ==
    /\ caches' = [caches EXCEPT ![inst] = MapCleanup(@, now)]
    /\ caches' # caches
    /\ UNCHANGED <<now, rlVars, capVars, admVars, orchVars, cacheResult, cacheHist, storiesHist, fetch>>

-----------------------------------------------------------------------------
(* The helper functions of cache.ts on the story list and the user id       *)

\* the same letter, whatever its case
CasePairs == {<<"a", "A">>, <<"n", "N">>, <<"b", "B">>}
SameLetter(x, y) == x = y \/ <<x, y>> \in CasePairs \/ <<y, x>> \in CasePairs

\* handles equal up to letter case
SameUpToCase(a, b) == Len(a) = Len(b) /\ \A i \in 1..Len(a) : SameLetter(a[i], b[i])

\* the key getCachedStories() looks up, the handle as given
StoriesKey_AsGiven(username) == username

\* username.toLowerCase(): the key of storyUrlCache and userIdCache
StoriesKey(username) == ToLowerCase(username)

(* History per handle, kept for the properties only: the data, the instant  *)
(* and the ttl of the last cacheStories() made for a handle equal up to     *)
(* case.                                                                    *)
FreshStoriesHist == [u \in Usernames |-> NoSet]

StoriesHistAfter(hist, username, data, t) ==
    [u \in Usernames |->
        IF SameUpToCase(u, username)
        THEN [value |-> data, at |-> t, ttl |-> STORY_URL_TTL, as |-> username]
        ELSE hist[u]]

\* cacheStories(username, data) at time t, on the Maps
StoriesCached(cs, username, data, t) ==
    [cs EXCEPT !["storyUrl"] = MapSet(@, ToLowerCase(username), data, STORY_URL_TTL, t)]

\* getCachedStories(username) at time t: the Map after it and the value returned
StoriesLookup(cs, username, t) == MapGet(cs["storyUrl"], StoriesKey(username), t)

\* cacheUserId(username, userId) at time t, on the Maps
UserIdCached(cs, username, userId, t) ==
    [cs EXCEPT !["userId"] = MapSet(@, ToLowerCase(username), userId, USER_ID_TTL, t)]

\* getCachedUserId(username)
UserIdLookup(cs, username, t) == MapGet(cs["userId"], ToLowerCase(username), t)

CacheStories ==
    /\ \E username \in Usernames, data \in ValuesOf("storyUrl", now) :
          /\ caches' = StoriesCached(caches, username, data, now)
          /\ storiesHist' = StoriesHistAfter(storiesHist, username, data, now)
    /\ cacheResult' = NoResult
    /\ UNCHANGED <<now, rlVars, capVars, admVars, orchVars, cacheHist, fetch>>

GetCachedStories ==
    /\ \E username \in Usernames :
          LET got == StoriesLookup(caches, username, now)
          IN /\ caches' = [caches EXCEPT !["storyUrl"] = got.map]
             /\ cacheResult' = GetRecord("getCachedStories", storiesHist[username],
                                         caches["storyUrl"], got,
                                         ToLowerCase(username), username, now)
    /\ UNCHANGED <<now, rlVars, capVars, admVars, orchVars, cacheHist, storiesHist, fetch>>

-----------------------------------------------------------------------------
(* fetchStories (src/lib/instagram-scraper.ts): the cache, then the         *)
(* strategies one after the other.  What the sites, the browser and the     *)
(* external process answer is open: each strategy is followed by the        *)
(* results it can return and by what it writes to the caches.               *)

\* the order of the calls in fetchStories
StrategyOrder == <<"StoriesIG", "Instaloader", "WebAPI", "GraphQL">>
Strategies == {StrategyOrder[i] : i \in 1..Len(StrategyOrder)}
Priority(strategy) == CHOOSE i \in 1..Len(StrategyOrder) : StrategyOrder[i] = strategy

\* sleep(1000) between the Web API and GraphQL
SleepMs == 1000

\* the account id the sites report
ResolvedIds == {[id |-> "1"]}

\* a ScraperResult with success: false (thrown tells a returned result from
\* a rejected promise)
Failure(error, method) ==
    [success |-> FALSE, stories |-> <<>>, error |-> error, method |-> method,
     thrown |-> FALSE]

\* a ScraperResult with success: true
Success(stories, method) ==
    [success |-> TRUE, stories |-> stories, error |-> "none", method |-> method,
     thrown |-> FALSE]

\* no ScraperResult: the promise of the function rejected with the error
Rejected(error) ==
    [success |-> FALSE, stories |-> <<>>, error |-> error, method |-> "none",
     thrown |-> TRUE]

\* variant: a list without items is a success too
ListResult_AnyList(stories, method, none) == Success(stories, method)

\* if (stories.length > 0) { ... return { success: true, stories, method } }
\* return { success: false, error: none, method }
ListResult(stories, method, none) ==
    IF Len(stories) > 0 THEN Success(stories, method) ELSE Failure(none, method)

\* what a strategy did: its result, the account id it cached (Miss if none)
\* and whether it cached the list
Outcome(result, userId, cached) == [result |-> result, userId |-> userId, cached |-> cached]

\* String(error) of an error caught by a strategy
CaughtError == "Error"

\* the browser of a fetchViaStoriesIG call: launched or not, the local
\* variable browser set or null, the calls of browser.close() awaited, and
\* how the last of them settled
NoBrowser == [launched |-> FALSE, handle |-> FALSE, closeCalls |-> 0, released |-> "no"]
Launched == [launched |-> TRUE, handle |-> TRUE, closeCalls |-> 0, released |-> "no"]

\* await browser.close(), which resolves or rejects
Close(browser, rejects) ==
    [browser EXCEPT !.closeCalls = @ + 1,
                    !.released = IF rejects THEN "rejected" ELSE "closed"]

\* variant: the catch block returns without closing the browser
CaughtClose_Leak(browser, rejects) == browser

\* catch: if (browser) { try { await browser.close(); } catch {} }
CaughtClose(browser, rejects) ==
    IF browser.handle THEN Close(browser, rejects) ELSE browser

\* the steps of fetchViaStoriesIG that can throw: the import of puppeteer,
\* the launch, the page and its navigation (20 s timeout), the query of the
\* search control, the typing, page.evaluate, and the parsing of the items
StoriesIGSteps == {"import", "launch", "page", "query", "type", "evaluate", "parse"}

\* what page.evaluate returns: an error of the signing or of the API, or the
\* items (none, or a list) with the user or without
ApiResults ==
    {[error |-> "Controller not found", stories |-> <<>>, user |-> Miss]}
    \cup {[error |-> "none", stories |-> s, user |-> id] :
            s \in StoryLists \cup {<<>>}, id \in ResolvedIds \cup {Miss}}

\* one run of fetchViaStoriesIG: the step that throws (if any), the search
\* control found or not, what the API answers, and whether the first and the
\* second browser.close() reject
StoriesIGPaths ==
    [throwAt : StoriesIGSteps \cup {"none"}, input : BOOLEAN, api : ApiResults,
     closeRejects : BOOLEAN, closeAgainRejects : BOOLEAN]

\* the result of a run, what it cached, and the browser it leaves
StoriesIGRun(path) ==
    LET out(result, userId, cached, browser) ==
            [result |-> result, userId |-> userId, cached |-> cached,
             browser |-> browser]
        caught(browser, rejects) ==
            out(Failure(CaughtError, "StoriesIG"), Miss, FALSE,
                CaughtClose(browser, rejects))
        \* await browser.close(); browser = null;
        closed == [Close(Launched, FALSE) EXCEPT !.handle = FALSE]
    IN IF path.throwAt \in {"import", "launch"}
       THEN caught(NoBrowser, FALSE)
       ELSE IF path.throwAt \in {"page", "query"}
       THEN caught(Launched, path.closeRejects)
       ELSE IF ~path.input
       THEN IF path.closeRejects
            THEN caught(Close(Launched, TRUE), path.closeAgainRejects)
            ELSE out(Failure("StoriesIG page layout changed", "StoriesIG"),
                     Miss, FALSE, Close(Launched, FALSE))
       ELSE IF path.throwAt \in {"type", "evaluate"}
       THEN caught(Launched, path.closeRejects)
       ELSE IF path.closeRejects
       THEN caught(Close(Launched, TRUE), path.closeAgainRejects)
       ELSE IF path.api.error # "none"
       THEN out(Failure(path.api.error, "StoriesIG"), Miss, FALSE, closed)
       ELSE IF Len(path.api.stories) > 0 /\ path.throwAt = "parse"
       THEN caught(closed, FALSE)
       ELSE LET result == ListResult(path.api.stories, "StoriesIG", "No stories available")
            IN out(result, IF result.success THEN path.api.user ELSE Miss,
                   result.success, closed)

\* fetchViaStoriesIG: the failures of the page, of the API and of the
\* browser; a non-empty list is cached, with the account id when the API told it
StoriesIGOutcomes == {StoriesIGRun(path) : path \in StoriesIGPaths}

\* readdirSync(sessionDir) on a path that is no directory: the error thrown
SessionDirError == "Error: ENOTDIR"

\* the imports and the listing of the session directories stand before the
\* try of fetchViaInstaloader: what they throw rejects its promise
InstaloaderThrows ==
    {Outcome(Rejected(SessionDirError), Miss, FALSE)}

\* fetchViaInstaloader: no session; inside its try the temporary file, the
\* process and JSON.parse (what they throw is caught), the login the script
\* asks for, no stories; a non-empty list is cached, with the account id
\* when there is one
InstaloaderOutcomes ==
    {Outcome(Failure(e, "Instaloader"), Miss, FALSE) :
        e \in {"No Instagram session - login required", CaughtError}}
    \cup InstaloaderThrows
    \cup {LET result == ListResult(s, "Instaloader", "No stories available")
          IN Outcome(result, IF result.success THEN id ELSE Miss, result.success) :
            s \in StoryLists \cup {<<>>}, id \in ResolvedIds \cup {Miss}}

\* fetchViaWebAPI: getUserInfoViaAPI() caches the id of a user it finds,
\* whatever follows; a non-empty list is cached
WebAPIOutcomes ==
    {Outcome(Failure("User not found", "WebAPI"), Miss, FALSE)}
    \cup {Outcome(Failure(e, "WebAPI"), id, FALSE) :
            e \in {"Profile is private", CaughtError}, id \in ResolvedIds}
    \cup {LET result == ListResult(s, "WebAPI", "No stories available")
          IN Outcome(result, id, result.success) :
            s \in StoryLists \cup {<<>>}, id \in ResolvedIds}

\* fetchViaGraphQL: getUserId() takes the id from the cache (known) or from
\* getUserInfoViaAPI(), which caches it; the list found is not cached
GraphQLOutcomes(known) ==
    (IF known THEN {} ELSE {Outcome(Failure("User not found", "GraphQL"), Miss, FALSE)})
    \cup {Outcome(Failure(CaughtError, "GraphQL"), id, FALSE) :
            id \in IF known THEN {Miss} ELSE ResolvedIds}
    \cup {Outcome(ListResult(s, "GraphQL", "No stories found"), id, FALSE) :
            s \in StoryLists \cup {<<>>}, id \in IF known THEN {Miss} ELSE ResolvedIds}

\* where fetchStories goes when every later strategy is called whatever the result
AfterStrategy_Through(strategy, success) ==
    CASE strategy = "StoriesIG"   -> "Instaloader"
      [] strategy = "Instaloader" -> "WebAPI"
      [] strategy = "WebAPI"      -> "sleep"
      [] strategy = "GraphQL"     -> "done"

\* where fetchStories goes after a strategy has returned
AfterStrategy(strategy, success) ==
    IF success THEN "done"
    ELSE CASE strategy = "StoriesIG"   -> "Instaloader"
           [] strategy = "Instaloader" -> "WebAPI"
           [] strategy = "WebAPI"      -> "sleep"
           [] strategy = "GraphQL"     -> "done"

\* the result when all methods failed
AllFailed(storiesIGError) ==
    Failure(IF storiesIGError = "No stories available"
            THEN "Nenhum story ativo no momento."
            ELSE "Nao foi possivel obter os stories. Tente novamente mais tarde.",
            "All")

IdleFetch ==
    [pc |-> "idle", username |-> <<>>, skipCache |-> FALSE, invoked |-> <<>>,
     storiesIGError |-> "none", browser |-> NoBrowser, result |-> NoResult,
     calls |-> 0]

\* the fetchStories calls that are followed
MaxFetches == 2

\* variant: the cache consulted whatever skipCache
CacheHit_Always(skipCache, got) ==
    got.value # Miss /\ Len(got.value.stories) > 0

\* if (!skipCache) { const cached = getCachedStories(username);
\*                   if (cached && cached.stories.length > 0) ... }
CacheHit(skipCache, got) ==
    ~skipCache /\ got.value # Miss /\ Len(got.value.stories) > 0

\* fetchStories(username, skipCache) up to its first strategy: the cache
FetchCall(username, skipCache) ==
    LET got == StoriesLookup(caches, username, now)
        hit == CacheHit(skipCache, got)
    IN /\ IF skipCache
          THEN UNCHANGED <<caches, cacheResult>>
          ELSE /\ caches' = [caches EXCEPT !["storyUrl"] = got.map]
               /\ cacheResult' = GetRecord("getCachedStories", storiesHist[username],
                                           caches["storyUrl"], got,
                                           ToLowerCase(username), username, now)
       /\ fetch' = [pc |-> IF hit THEN "done" ELSE "StoriesIG",
                    username |-> username, skipCache |-> skipCache,
                    invoked |-> <<>>, storiesIGError |-> "none",
                    browser |-> NoBrowser,
                    result |-> IF hit THEN Success(got.value.stories, "Cache")
                               ELSE NoResult,
                    calls |-> fetch.calls + 1]

\* a fetchStories call from a caller that is not followed
FetchStart ==
    /\ fetch.pc \in {"idle", "done"}
    /\ fetch.calls < MaxFetches
    /\ \E username \in OpKeys, skipCache \in BOOLEAN : FetchCall(username, skipCache)
    /\ UNCHANGED <<now, rlVars, capVars, admVars, orchVars, cacheHist, storiesHist>>

\* a strategy called and returned: what it cached, the call recorded (with
\* storiesIGResult.error, which the final message looks at), and the return
\* of fetchStories if the strategy succeeded or was the last; a strategy that
\* throws rejects the await of fetchStories, which has no try around it
StrategyStep(strategy, cs, outcome) ==
    LET withId == IF outcome.userId = Miss THEN cs
                  ELSE UserIdCached(cs, fetch.username, outcome.userId, now)
        data == StoryData(outcome.result.stories, now)
        next == IF outcome.result.thrown THEN "done"
                ELSE AfterStrategy(strategy, outcome.result.success)
        invoked == Append(fetch.invoked,
                          [strategy |-> strategy, success |-> outcome.result.success,
                           error |-> outcome.result.error,
                           thrown |-> outcome.result.thrown])
        storiesIGError == IF strategy = "StoriesIG" THEN outcome.result.error
                          ELSE fetch.storiesIGError
    IN /\ caches' = IF outcome.cached
                    THEN StoriesCached(withId, fetch.username, data, now)
                    ELSE withId
       /\ storiesHist' = IF outcome.cached
                         THEN StoriesHistAfter(storiesHist, fetch.username, data, now)
                         ELSE storiesHist
       /\ fetch' = [fetch EXCEPT
                       !.pc = next,
                       !.invoked = invoked,
                       !.storiesIGError = storiesIGError,
                       !.browser = IF strategy = "StoriesIG" THEN outcome.browser
                                   ELSE NoBrowser,
                       !.result = IF next # "done" THEN NoResult
                                  ELSE IF outcome.result.success \/ outcome.result.thrown
                                  THEN outcome.result
                                  ELSE AllFailed(storiesIGError)]

FetchViaStoriesIG ==
    /\ fetch.pc = "StoriesIG"
    /\ \E outcome \in StoriesIGOutcomes : StrategyStep("StoriesIG", caches, outcome)
    /\ UNCHANGED <<now, rlVars, capVars, admVars, orchVars, cacheResult, cacheHist>>

FetchViaInstaloader ==
    /\ fetch.pc = "Instaloader"
    /\ \E outcome \in InstaloaderOutcomes : StrategyStep("Instaloader", caches, outcome)
    /\ UNCHANGED <<now, rlVars, capVars, admVars, orchVars, cacheResult, cacheHist>>

FetchViaWebAPI ==
    /\ fetch.pc = "WebAPI"
    /\ \E outcome \in WebAPIOutcomes : StrategyStep("WebAPI", caches, outcome)
    /\ UNCHANGED <<now, rlVars, capVars, admVars, orchVars, cacheResult, cacheHist>>

\* the instants at which fetchStories is exercised: around the end of the
\* life times of the two caches it uses
FetchInstants ==
    {Epoch} \cup {Epoch + ttl + o : ttl \in {STORY_URL_TTL, USER_ID_TTL}, o \in 0..MaxOffsetMs}

TickFetch ==
    /\ \E t \in FetchInstants : t > now /\ now' = t
    /\ UNCHANGED <<rlVars, capVars, admVars, orchVars, acqVars>>

\* await sleep(1000): a second passes (and more with TickFetch)
FetchSleep ==
    /\ fetch.pc = "sleep"
    /\ now' = now + SleepMs
    /\ fetch' = [fetch EXCEPT !.pc = "GraphQL"]
    /\ UNCHANGED <<rlVars, capVars, admVars, orchVars, caches, cacheResult, cacheHist, storiesHist>>

FetchViaGraphQL ==
    /\ fetch.pc = "GraphQL"
    /\ LET got == UserIdLookup(caches, fetch.username, now)
           looked == [caches EXCEPT !["userId"] = got.map]
       IN \E outcome \in GraphQLOutcomes(got.value # Miss) :
             StrategyStep("GraphQL", looked, outcome)
    /\ UNCHANGED <<now, rlVars, capVars, admVars, orchVars, cacheResult, cacheHist>>

-----------------------------------------------------------------------------
(* downloadStory (src/lib/instagram-scraper.ts): fetchStories(username),    *)
(* the choice of the item, downloadMedia(url) and the test of the buffer.   *)
(* pc: idle, fetchStories (awaiting the list), downloadMedia (awaiting the  *)
(* transfer), done.                                                         *)

\* String.prototype.includes on sequences of characters
Includes(s, sub) ==
    \E i \in 0..(Len(s) - Len(sub)) : SubSeq(s, i + 1, i + Len(sub)) = sub

\* the test of the find(): s.id === storyId || s.id.includes(storyId)
IdMatches(id, storyId) == id = storyId \/ Includes(id, storyId)

\* stories.find(...): the index of the first item that passes the test, 0
\* for undefined
FindStory(stories, storyId) ==
    LET hits == {i \in 1..Len(stories) : IdMatches(stories[i].id, storyId)}
    IN IF hits = {} THEN 0 ELSE CHOOSE i \in hits : \A j \in hits : i <= j

\* variant: an id that is not found stays not found
TargetStory_NoFallback(stories, storyId) == FindStory(stories, storyId)

\* the item downloadStory goes for: the one found, else stories[0], else none
TargetStory(stories, storyId) ==
    LET found == FindStory(stories, storyId)
    IN IF found = 0 /\ Len(stories) > 0 THEN 1 ELSE found

\* the ids asked for: that of the second item, one that holds it, that of
\* the first item, one that has nothing to do with either
StoryIds == {<<"2">>, <<"2", "3">>, <<"1", "2">>, <<"9">>}

\* what fetch(url) comes to: a response with a status and a body of some
\* length, or an exception
HttpStatuses == {200, 404}
BodyLengths == {500, 999, 1000}
NoTransfer == [none |-> TRUE]
Response(status, length) == [thrown |-> FALSE, status |-> status, length |-> length]
Thrown == [thrown |-> TRUE, status |-> 0, length |-> 0]
Transfers == {Thrown} \cup {Response(st, n) : st \in HttpStatuses, n \in BodyLengths}

\* response.ok
ResponseOk(status) == status >= 200 /\ status <= 299

NullBuffer == [null |-> TRUE, length |-> 0]
Buffer(n) == [null |-> FALSE, length |-> n]

\* downloadMedia(url): null on an exception or a status that is not ok,
\* else the body
DownloadMedia(transfer) ==
    IF transfer.thrown \/ ~ResponseOk(transfer.status)
    THEN NullBuffer
    ELSE Buffer(transfer.length)

\* buffer.length < 1000
MinimumLength == 1000

\* variant: any body accepted
BufferRejected_NullOnly(buffer) == buffer.null

\* !buffer || buffer.length < 1000
BufferRejected(buffer) == buffer.null \/ buffer.length < MinimumLength

\* a DownloadResult with success: false
DownloadFailure(error) ==
    [success |-> FALSE, error |-> error, buffer |-> NullBuffer, isVideo |-> FALSE,
     thrown |-> FALSE]

\* no DownloadResult: the promise of downloadStory rejected with the error
DownloadRejected(error) ==
    [success |-> FALSE, error |-> error, buffer |-> NullBuffer, isVideo |-> FALSE,
     thrown |-> TRUE]

\* a DownloadResult with success: true
DownloadSuccess(buffer, isVideo) ==
    [success |-> TRUE, error |-> "none", buffer |-> buffer, isVideo |-> isVideo,
     thrown |-> FALSE]

\* variant: the result of fetchStories taken for a list whatever it is
ResolutionFailed_Never(storiesResult) == FALSE

\* !storiesResult.success || !storiesResult.stories
ResolutionFailed(storiesResult) == ~storiesResult.success

IdleDownload ==
    [pc |-> "idle", username |-> <<>>, storyId |-> <<>>, target |-> 0,
     requests |-> <<>>, transfer |-> NoTransfer, result |-> NoResult]

\* downloadStory(username, storyId) up to the await of fetchStories(username)
DownloadStoryCall(username, storyId) ==
    /\ FetchCall(username, FALSE)
    /\ dl' = [IdleDownload EXCEPT !.pc = "fetchStories", !.username = username,
                                  !.storyId = storyId]

DownloadStoryStart ==
    /\ dl.pc \in {"idle", "done"}
    /\ fetch.pc \in {"idle", "done"}
    /\ fetch.calls < MaxFetches
    /\ \E username \in OpKeys, storyId \in StoryIds : DownloadStoryCall(username, storyId)
    /\ UNCHANGED <<now, rlVars, capVars, admVars, route, cacheHist, storiesHist, toolVars>>

\* fetchStories has returned: its error handed on, or the item chosen and
\* downloadMedia(targetStory.url) called; a rejection of fetchStories rejects
\* downloadStory, which awaits it outside any try
DownloadStoryResolved ==
    /\ dl.pc = "fetchStories"
    /\ fetch.pc = "done"
    /\ LET storiesResult == fetch.result
           target == TargetStory(storiesResult.stories, dl.storyId)
       IN dl' = IF storiesResult.thrown
                THEN [dl EXCEPT !.pc = "done",
                                !.result = DownloadRejected(storiesResult.error)]
                ELSE IF ResolutionFailed(storiesResult)
                THEN [dl EXCEPT !.pc = "done",
                                !.result = DownloadFailure(storiesResult.error)]
                ELSE IF target = 0
                THEN [dl EXCEPT !.pc = "done",
                                !.result = DownloadFailure("Story not found")]
                ELSE [dl EXCEPT !.pc = "downloadMedia",
                                !.target = target,
                                !.requests = <<storiesResult.stories[target].url>>]
    /\ UNCHANGED <<now, rlVars, capVars, admVars, acqVars, route, toolVars>>

\* downloadMedia has returned: the buffer tested, the result
DownloadStoryMedia ==
    /\ dl.pc = "downloadMedia"
    /\ \E transfer \in Transfers :
          LET buffer == DownloadMedia(transfer)
              targetStory == fetch.result.stories[dl.target]
          IN dl' = [dl EXCEPT
                       !.pc = "done",
                       !.transfer = transfer,
                       !.result = IF BufferRejected(buffer)
                                  THEN DownloadFailure("Failed to download media or file too small")
                                  ELSE DownloadSuccess(buffer, targetStory.mediaType = "video")]
    /\ UNCHANGED <<now, rlVars, capVars, admVars, acqVars, route, toolVars>>

-----------------------------------------------------------------------------
(* The handlers that reach fetchStories and downloadStory:                  *)
(* POST /api/download for an Instagram url that holds /stories/,            *)
(* GET /api/instagram/stories and POST /api/instagram/stories/download.     *)
(* One request is followed at a time.  pc: idle, the method the handler is  *)
(* about to run (RapidAPI, scraper, Instaloader, yt-dlp), downloadStory     *)
(* and fetchStories (awaiting that call), done.                             *)

Handlers == {"download", "stories", "stories/download"}

\* getInstagramSession(): nothing, cookies.txt only, a session- file
Sessions == {"none", "cookies", "file"}

\* session.hasSession
HasSession(session) == session # "none"

\* session.hasSession && session.sessionFile
HasSessionFile(session) == session = "file"

\* the methods of the story branch, in the order of the handler
MethodOrder == <<"RapidAPI", "scraper", "Instaloader", "yt-dlp">>
Methods == {MethodOrder[i] : i \in 1..Len(MethodOrder)}
MethodRank(method) == CHOOSE i \in 1..Len(MethodOrder) : MethodOrder[i] = method

\* the handle and the story id of the requests followed; the urls differ in
\* nothing else, so the downloadResult Map is read under the handle
RouteUsername == <<"n", "a">>
RouteStoryId == <<"2">>
UrlKey(username) == username

\* stats.size > 1000
MinimumFileSize == 1000

\* the file a downloadStory result leaves: written, and kept if larger than
\* 1000 bytes
FileFromResult(result) ==
    result.success /\ ~result.buffer.null /\ result.buffer.length > MinimumFileSize

IdleRoute ==
    [handler |-> "none", pc |-> "idle", checked |-> FALSE, admitted |-> FALSE,
     rapid |-> FALSE, session |-> "none", storyInfo |-> FALSE, cached |-> FALSE,
     username |-> <<>>, tried |-> <<>>, file |-> FALSE, status |-> 0]

\* the method the handler starts with
FirstMethod(rapid) == IF rapid THEN "RapidAPI" ELSE "scraper"

\* variant: Instaloader and yt-dlp run whatever session there is
MethodAfter_Unconditional(handler, method, session) ==
    CASE method = "RapidAPI"    -> "scraper"
      [] method = "scraper"     -> IF handler = "stories/download" THEN "done"
                                   ELSE "Instaloader"
      [] method = "Instaloader" -> "yt-dlp"
      [] method = "yt-dlp"      -> "done"

\* where the handler goes after a method that left no file
MethodAfter(handler, method, session) ==
    CASE method = "RapidAPI"    -> "scraper"
      [] method = "scraper"     -> IF handler = "stories/download" THEN "done"
                                   ELSE IF HasSessionFile(session) THEN "Instaloader"
                                   ELSE IF HasSession(session) THEN "yt-dlp"
                                   ELSE "done"
      [] method = "Instaloader" -> IF HasSession(session) THEN "yt-dlp" ELSE "done"
      [] method = "yt-dlp"      -> "done"

\* variant: the next method run whether or not there is a file
MethodNext_Through(handler, method, session, file) ==
    MethodAfter(handler, method, session)

\* if (!downloadedFile) ... before each method after the first
MethodNext(handler, method, session, file) ==
    IF file THEN "done" ELSE MethodAfter(handler, method, session)

\* a method has returned with a file or without: the next method, or the
\* response (and for POST /api/download the result cached under the url)
MethodStep(method, file) ==
    LET next == MethodNext(route.handler, method, route.session, file)
        result == [success |-> TRUE, fileName |-> "f1"]
        key == UrlKey(route.username)
    IN /\ route' = [route EXCEPT
                       !.tried = Append(@, [method |-> method, file |-> file]),
                       !.file = file,
                       !.pc = next,
                       !.status = IF next # "done" THEN 0
                                  ELSE IF file THEN 200 ELSE 400]
       /\ IF next = "done" /\ file /\ route.handler = "download"
          THEN /\ caches' = [caches EXCEPT !["downloadResult"] =
                                MapSet(@, key, result, DOWNLOAD_RESULT_TTL, now)]
               /\ cacheHist' = [cacheHist EXCEPT !["downloadResult"][key] =
                                   [value |-> result, at |-> now,
                                    ttl |-> DOWNLOAD_RESULT_TTL, as |-> key]]
          ELSE UNCHANGED <<caches, cacheHist>>

\* no request, no fetchStories and no downloadStory is under way, and more
\* requests are followed
RouteFree ==
    /\ route.pc \in {"idle", "done"}
    /\ dl.pc \in {"idle", "done"}
    /\ fetch.pc \in {"idle", "done"}
    /\ served < MaxPosts
    /\ fetch.calls < MaxFetches

\* POST /api/download with a url that holds /stories/ and no captcha: the
\* admission, the cached result, and the story branch up to its first method
DownloadRoutePost ==
    /\ RouteFree
    /\ DownloadPostStep(ClientIP, EmptyToken, NoInput)
    /\ served' = served + 1
    /\ \E rapid \in BOOLEAN, session \in Sessions, storyInfo \in BOOLEAN :
          LET adm == Admission(ClientIP, EmptyToken, NoInput)
              got == MapGet(caches["downloadResult"], UrlKey(RouteUsername), now)
              req == [IdleRoute EXCEPT !.handler = "download", !.checked = TRUE,
                                       !.admitted = (adm.response.status = 200),
                                       !.username = RouteUsername]
          IN IF ~req.admitted
             THEN /\ route' = [req EXCEPT !.pc = "done", !.status = adm.response.status]
                  /\ UNCHANGED caches
             ELSE /\ caches' = [caches EXCEPT !["downloadResult"] = got.map]
                  /\ route' =
                        IF got.value # Miss /\ got.value.success
                        THEN [req EXCEPT !.pc = "done", !.cached = TRUE, !.status = 200]
                        ELSE IF ~storyInfo
                        THEN [req EXCEPT !.pc = "done", !.session = session, !.status = 400]
                        ELSE [req EXCEPT !.pc = FirstMethod(rapid), !.rapid = rapid,
                                         !.session = session, !.storyInfo = TRUE]
    /\ UNCHANGED <<now, client, cacheResult, cacheHist, storiesHist, fetch, dl, toolVars>>

\* GET /api/instagram/stories?username=...&refresh=...: fetchStories called
StoriesRouteGet ==
    /\ RouteFree
    /\ \E skipCache \in BOOLEAN : FetchCall(RouteUsername, skipCache)
    /\ route' = [IdleRoute EXCEPT !.handler = "stories", !.pc = "fetchStories",
                                  !.username = RouteUsername]
    /\ served' = served + 1
    /\ UNCHANGED <<now, rlVars, capVars, dlResponse, client, cacheHist, storiesHist, dl, toolVars>>

\* fetchStories has returned: the list (or none) sent with success: true;
\* the catch of the handler answers 500
StoriesRouteDone ==
    /\ route.pc = "fetchStories"
    /\ fetch.pc = "done"
    /\ route' = [route EXCEPT !.pc = "done",
                              !.status = IF fetch.result.thrown THEN 500 ELSE 200]
    /\ UNCHANGED <<now, rlVars, capVars, admVars, acqVars, dl, toolVars>>

\* POST /api/instagram/stories/download with {username, storyId}
StoryDownloadRoutePost ==
    /\ RouteFree
    /\ \E rapid \in BOOLEAN :
          route' = [IdleRoute EXCEPT !.handler = "stories/download",
                                     !.pc = FirstMethod(rapid), !.rapid = rapid,
                                     !.storyInfo = TRUE, !.username = RouteUsername]
    /\ served' = served + 1
    /\ UNCHANGED <<now, rlVars, capVars, dlResponse, client, acqVars, dl, toolVars>>

\* downloadStoryViaRapidAPI and the file it leaves
RouteRapidAPI ==
    /\ route.pc = "RapidAPI"
    /\ \E file \in BOOLEAN : MethodStep("RapidAPI", file)
    /\ UNCHANGED <<now, rlVars, capVars, admVars, cacheResult, storiesHist, fetch, dl, toolVars>>

\* the scraper engine: downloadStory(username, storyId) called
RouteScraper ==
    /\ route.pc = "scraper"
    /\ DownloadStoryCall(route.username, RouteStoryId)
    /\ route' = [route EXCEPT !.pc = "downloadStory"]
    /\ UNCHANGED <<now, rlVars, capVars, admVars, cacheHist, storiesHist, toolVars>>

\* downloadStory has returned: the buffer written, the file kept or not.
\* downloadInstagramStoryWithScraper catches what downloadStory throws and
\* leaves no file; POST /api/instagram/stories/download answers 500
RouteScraperDone ==
    /\ route.pc = "downloadStory"
    /\ dl.pc = "done"
    /\ IF dl.result.thrown /\ route.handler = "stories/download"
       THEN /\ route' = [route EXCEPT
                            !.tried = Append(@, [method |-> "scraper", file |-> FALSE]),
                            !.pc = "done", !.status = 500]
            /\ UNCHANGED <<caches, cacheHist>>
       ELSE MethodStep("scraper", FileFromResult(dl.result))
    /\ UNCHANGED <<now, rlVars, capVars, admVars, cacheResult, storiesHist, fetch, dl, toolVars>>

\* downloadInstagramStoryWithSession and the file it leaves
RouteInstaloader ==
    /\ route.pc = "Instaloader"
    /\ \E file \in BOOLEAN : MethodStep("Instaloader", file)
    /\ UNCHANGED <<now, rlVars, capVars, admVars, cacheResult, storiesHist, fetch, dl, toolVars>>

\* downloadInstagramWithYtDlp: the file it leaves, none if it throws
RouteYtDlp ==
    /\ route.pc = "yt-dlp"
    /\ \E file \in BOOLEAN : MethodStep("yt-dlp", file)
    /\ UNCHANGED <<now, rlVars, capVars, admVars, cacheResult, storiesHist, fetch, dl, toolVars>>

-----------------------------------------------------------------------------
(* The media-list parsers (src/lib/instagram-scraper.ts): parseStoryItems,  *)
(* used by fetchViaWebAPI and fetchViaGraphQL, and the loop of               *)
(* fetchViaStoriesIG.  A raw item carries its video renditions               *)
(* (video_versions) and its image renditions (image_versions2.candidates),  *)
(* each with a width and a url; a list that is missing is the empty list.   *)

\* no value: the property is absent from the item
Undefined == "undefined"

Rendition(width, url) == [width |-> width, url |-> url]

\* the renditions the sites send, in the orders they may come in
VideoLists ==
    {<<>>, <<Rendition(320, "v320")>>,
     <<Rendition(320, "v320"), Rendition(640, "v640")>>,
     <<Rendition(640, "v640"), Rendition(320, "v320")>>}
ImageLists ==
    {<<>>, <<Rendition(320, "i320")>>,
     <<Rendition(320, "i320"), Rendition(640, "i640")>>,
     <<Rendition(640, "i640"), Rendition(320, "i320")>>}

RawItem(id, videos, images) == [id |-> id, video_versions |-> videos, candidates |-> images]

\* the longest list of raw items parsed
MaxItems == 2

\* the lists of raw items: the item at position i has the id i
RawLists ==
    UNION {[1..n -> {RawItem(0, v, c) : v \in VideoLists, c \in ImageLists}] : n \in 0..MaxItems}

RECURSIVE InsertByWidth(_, _)
\* r put into a list sorted by (b.width || 0) - (a.width || 0), behind the
\* renditions as wide as it is (Array.prototype.sort is stable)
InsertByWidth(sorted, r) ==
    IF sorted = <<>> THEN <<r>>
    ELSE IF Head(sorted).width >= r.width
    THEN <<Head(sorted)>> \o InsertByWidth(Tail(sorted), r)
    ELSE <<r>> \o sorted

RECURSIVE SortByWidth(_)
\* renditions.sort((a, b) => (b.width || 0) - (a.width || 0))
SortByWidth(rs) ==
    IF rs = <<>> THEN <<>>
    ELSE InsertByWidth(SortByWidth(SubSeq(rs, 1, Len(rs) - 1)), rs[Len(rs)])

\* a StoryItem as the parsers build it
ParsedStory(id, mediaType, url, thumbnailUrl) ==
    [id |-> id, mediaType |-> mediaType, url |-> url, thumbnailUrl |-> thumbnailUrl]

\* item.image_versions2?.candidates?.[0]?.url
FirstCandidate(images) ==
    IF images = <<>> THEN Undefined ELSE images[1].url

\* the body of the loop of parseStoryItems: the items it pushes for one raw item
ParseStoryItem(item, id) ==
    IF Len(item.video_versions) > 0
    THEN <<ParsedStory(id, "video", SortByWidth(item.video_versions)[1].url,
                       FirstCandidate(item.candidates))>>
    ELSE IF Len(item.candidates) > 0
    THEN <<ParsedStory(id, "image", SortByWidth(item.candidates)[1].url, Undefined)>>
    ELSE <<>>

\* the body of the loop of fetchViaStoriesIG: an item without a media url
\* is not pushed; thumbnailUrl || (isVideo ? undefined : mediaUrl)
StoriesIGItem(item, id) ==
    LET isVideo == Len(item.video_versions) > 0
        sorted == SortByWidth(IF isVideo THEN item.video_versions ELSE item.candidates)
        mediaUrl == IF sorted = <<>> THEN Undefined ELSE sorted[1].url
        thumbnailUrl == IF isVideo THEN FirstCandidate(item.candidates) ELSE Undefined
    IN IF mediaUrl = Undefined THEN <<>>
       ELSE <<ParsedStory(id, IF isVideo THEN "video" ELSE "image", mediaUrl,
                          IF thumbnailUrl # Undefined THEN thumbnailUrl
                          ELSE IF isVideo THEN Undefined ELSE mediaUrl)>>

RECURSIVE ParseFrom(_, _, _)
\* for (const item of items) { ... stories.push(...) }: the items from
\* position i on, parsed by the parser named
ParseFrom(parser, items, i) ==
    IF i > Len(items) THEN <<>>
    ELSE (IF parser = "parseStoryItems" THEN ParseStoryItem(items[i], i)
          ELSE StoriesIGItem(items[i], i))
         \o ParseFrom(parser, items, i + 1)

Parsers == {"parseStoryItems", "StoriesIG"}

IdleParse == [parser |-> "none", items |-> <<>>, stories |-> <<>>]

\* one call of a parser on a list of raw items
ParseCall(parser) ==
    /\ \E items \in RawLists :
          parse' = [parser |-> parser, items |-> items,
                    stories |-> ParseFrom(parser, items, 1)]
    /\ UNCHANGED <<now, rlVars, capVars, admVars, acqVars, dl, route, pending, rapidCall>>


-----------------------------------------------------------------------------
(* The suspending steps of fetchStories and downloadStory                    *)
(* (src/lib/instagram-scraper.ts) that wait on a dependency: the navigation *)
(* and the in-page evaluation of fetchViaStoriesIG, the external process of *)
(* fetchViaInstaloader, the response headers and the response body of every *)
(* HTTP request.  One call is followed; at most one of its dependencies     *)
(* never answers.                                                           *)

\* no timer runs while the step is awaited
NoTimer == 0 - 1

WaitStep(name, strategy, timer) == [name |-> name, strategy |-> strategy, timer |-> timer]

\* the steps in the order of the awaits, with the strategy (or function)
\* they belong to and the timeout the code has armed while each is awaited:
\* page.goto has timeout: 20000; page.evaluate and the fetch() calls inside
\* the page have none; execAsync has timeout: 45000; each fetch() is aborted
\* after 10, 15 or 60 s until its headers arrive, when clearTimeout(timeout)
\* stops the timer, so that response.json() and response.arrayBuffer() are
\* awaited without one
WaitSteps ==
    <<WaitStep("page.goto", "StoriesIG", 20000),
      WaitStep("page.evaluate", "StoriesIG", NoTimer),
      WaitStep("execAsync", "Instaloader", 45000),
      WaitStep("userInfo fetch", "WebAPI", 10000),
      WaitStep("userInfo response.json", "WebAPI", NoTimer),
      WaitStep("story fetch", "WebAPI", 15000),
      WaitStep("story response.json", "WebAPI", NoTimer),
      WaitStep("reels fetch", "GraphQL", 15000),
      WaitStep("reels response.json", "GraphQL", NoTimer),
      WaitStep("media fetch", "downloadMedia", 60000),
      WaitStep("media response.arrayBuffer", "downloadMedia", NoTimer)>>

StepNames == {WaitSteps[i].name : i \in 1..Len(WaitSteps)}

\* the last step of a call: fetchStories ends with fetchViaGraphQL,
\* downloadStory with downloadMedia
LastStep(call) == IF call = "downloadStory" THEN Len(WaitSteps) ELSE Len(WaitSteps) - 2

\* the first step of the strategy that follows the one of step i, 0 if the
\* call returns instead (no strategy left, or downloadMedia returned null)
NextStrategyStep(call, i) ==
    LET later == {j \in (i + 1)..(Len(WaitSteps) - 2) :
                      WaitSteps[j].strategy # WaitSteps[i].strategy}
    IN IF WaitSteps[i].strategy = "downloadMedia" \/ later = {} THEN 0
       ELSE CHOOSE j \in later : \A k \in later : j <= k

\* step i is the last await of its strategy
EndsStrategy(i) == i = Len(WaitSteps) \/ WaitSteps[i + 1].strategy # WaitSteps[i].strategy

IdlePending ==
    [pc |-> "idle", call |-> "none", step |-> 0, hangs |-> "none", since |-> NoTime,
     result |-> "none"]

\* the call goes on with step i, or returns if i = 0
WaitOn(i, result) ==
    IF i = 0
    THEN [pending EXCEPT !.pc = "returned", !.step = 0, !.result = result]
    ELSE [pending EXCEPT !.step = i, !.since = now']

\* a call is made; the dependency of one of its steps, or none, hangs forever
WaitStart ==
    /\ pending.pc = "idle"
    /\ \E call \in {"fetchStories", "downloadStory"}, hangs \in StepNames \cup {"none"} :
          pending' = [pc |-> "waiting", call |-> call, step |-> 1, hangs |-> hangs,
                      since |-> now, result |-> "none"]
    /\ UNCHANGED <<now, rlVars, capVars, admVars, acqVars, dl, route, parse, rapidCall>>

\* the dependency answers: the strategy goes on with its next await; at its
\* last await it succeeds (fetchStories returns, downloadStory goes on to
\* downloadMedia) or fails (the next strategy is called)
WaitSettles ==
    /\ pending.pc = "waiting"
    /\ WaitSteps[pending.step].name # pending.hangs
    /\ now' = now
    /\ LET i == pending.step
       IN IF ~EndsStrategy(i)
          THEN \E ok \in BOOLEAN :
                  pending' = IF ok THEN WaitOn(i + 1, "none")
                             ELSE WaitOn(NextStrategyStep(pending.call, i), "failure")
          ELSE \E ok \in BOOLEAN :
                  pending' =
                     IF WaitSteps[i].strategy = "downloadMedia"
                     THEN WaitOn(0, IF ok THEN "success" ELSE "failure")
                     ELSE IF ~ok
                     THEN WaitOn(NextStrategyStep(pending.call, i), "failure")
                     ELSE IF pending.call = "downloadStory"
                     THEN WaitOn(Len(WaitSteps) - 1, "none")
                     ELSE WaitOn(0, "success")
    /\ UNCHANGED <<rlVars, capVars, admVars, acqVars, dl, route, parse, rapidCall>>

\* the timeout armed while step i is awaited
TimerArmed(i) == WaitSteps[i].timer

\* the timer of the step awaited fires: the await throws, the catch of the
\* strategy returns a failure (getUserInfoViaAPI and downloadMedia return
\* null) and the next strategy is called, or the call returns
WaitTimesOut ==
    /\ pending.pc = "waiting"
    /\ TimerArmed(pending.step) # NoTimer
    /\ now' = pending.since + TimerArmed(pending.step)
    /\ pending' = WaitOn(NextStrategyStep(pending.call, pending.step), "failure")
    /\ UNCHANGED <<rlVars, capVars, admVars, acqVars, dl, route, parse, rapidCall>>

-----------------------------------------------------------------------------
(* fetchStoriesViaRapidAPI (src/lib/instagram-rapidapi.ts): up to            *)
(* maxRetries requests, with a backoff between them.  pc: idle, fetch        *)
(* (awaiting the response, which a timer aborts after 30 s), json (awaiting *)
(* response.json()), sleep (the backoff), done.                              *)

RapidMaxRetries == 3

\* no response: fetch() threw (the network failed, or the request was aborted)
NoStatus == 0

\* the statuses the service answers with
RapidStatuses == {200, 401, 403, 404, 429, 500}

RapidResult(success, stories, error) ==
    [success |-> success, stories |-> stories, error |-> error]

IdleRapid ==
    [pc |-> "idle", attempt |-> 0, responses |-> <<>>, lastError |-> "", wait |-> 0,
     body |-> "none", result |-> NoResult]

RECURSIVE Pow2(_)
\* Math.pow(2, n)
Pow2(n) == IF n = 0 THEN 1 ELSE 2 * Pow2(n - 1)

\* the call returns
RapidDone(c, result) == [c EXCEPT !.pc = "done", !.result = result]

\* the loop is left: return { success: false, error: lastError || 'Failed after retries' }
RapidExhausted(c) ==
    RapidDone(c, RapidResult(FALSE, <<>>,
                             IF c.lastError # "" THEN c.lastError ELSE "Failed after retries"))

\* if (attempt < maxRetries) { await sleep(ms); continue; } and then the
\* end of the loop
RapidBackoff(c, ms) ==
    IF c.attempt < RapidMaxRetries
    THEN [c EXCEPT !.pc = "sleep", !.wait = ms]
    ELSE RapidExhausted(c)

\* catch (error): lastError set, a backoff unless this was the last attempt
RapidCaught(c, error) ==
    RapidBackoff([c EXCEPT !.lastError = error], Pow2(c.attempt) * 500)

\* what follows the response with the status given
RapidResponse(c, status, bodyArrives) ==
    CASE status = NoStatus -> RapidCaught(c, "fetch failed")
      [] status = 429 -> [c EXCEPT !.pc = "sleep", !.wait = Pow2(c.attempt) * 1000]
      [] status \in {401, 403} ->
            RapidDone([c EXCEPT !.lastError = "HTTP 401"],
                      RapidResult(FALSE, <<>>, "Invalid API key or subscription expired"))
      [] status = 404 ->
            RapidDone([c EXCEPT !.lastError = "HTTP 404"],
                      RapidResult(FALSE, <<>>, "User not found or no stories"))
      [] status = 200 ->
            [c EXCEPT !.pc = "json", !.body = IF bodyArrives THEN "arrives" ELSE "never"]
      [] OTHER -> RapidBackoff([c EXCEPT !.lastError = "HTTP 500"], Pow2(c.attempt) * 500)

\* the call: without a key it returns at once
RapidStart ==
    /\ rapidCall.pc = "idle"
    /\ \E configured \in BOOLEAN :
          rapidCall' =
             IF configured
             THEN [IdleRapid EXCEPT !.pc = "fetch", !.attempt = 1]
             ELSE RapidDone(IdleRapid, RapidResult(FALSE, <<>>, "RapidAPI not configured"))
    /\ UNCHANGED <<now, rlVars, capVars, admVars, acqVars, dl, route, parse, pending>>

\* one request: the response, or none, and what the loop does with it
RapidAttempt ==
    /\ rapidCall.pc = "fetch"
    /\ \E status \in RapidStatuses \cup {NoStatus}, bodyArrives \in BOOLEAN :
          rapidCall' = RapidResponse([rapidCall EXCEPT !.responses = Append(@, status)],
                                     status, bodyArrives)
    /\ UNCHANGED <<now, rlVars, capVars, admVars, acqVars, dl, route, parse, pending>>

\* await response.json(), no timer running: the body parsed (a list with
\* items is the success, an empty one a failure), or not JSON (caught)
RapidJson ==
    /\ rapidCall.pc = "json"
    /\ rapidCall.body = "arrives"
    /\ \E valid \in BOOLEAN, stories \in StoryLists \cup {<<>>} :
          rapidCall' =
             IF ~valid THEN RapidCaught(rapidCall, "Unexpected token")
             ELSE IF Len(stories) > 0
             THEN RapidDone(rapidCall, RapidResult(TRUE, stories, "none"))
             ELSE RapidDone(rapidCall, RapidResult(FALSE, <<>>, "No stories available"))
    /\ UNCHANGED <<now, rlVars, capVars, admVars, acqVars, dl, route, parse, pending>>

\* the backoff is over: the next attempt, or the end of the loop
RapidSleep ==
    /\ rapidCall.pc = "sleep"
    /\ now' = now + rapidCall.wait
    /\ rapidCall' =
          LET c == [rapidCall EXCEPT !.attempt = @ + 1, !.wait = 0]
          IN IF c.attempt <= RapidMaxRetries THEN [c EXCEPT !.pc = "fetch"]
             ELSE RapidExhausted(c)
    /\ UNCHANGED <<rlVars, capVars, admVars, acqVars, dl, route, parse, pending>>

-----------------------------------------------------------------------------
(* Specifications *)

Init ==
    /\ now = Epoch
    /\ entries = [l \in Limiters |-> [id \in Identifiers |-> NoEntry]]
    /\ rlResult = NoResult
    /\ rlHist = [l \in Limiters |-> [id \in Identifiers |-> FreshHist]]
    /\ captchaStore = [k \in Tokens |-> NoCaptcha]
    /\ capResult = NoResult
    /\ capHist = [k \in Tokens |-> NotIssued]
    /\ dlResponse = NoResponse
    /\ client = IdleClient
    /\ served = 0
    /\ caches = [inst \in Instances |-> EmptyMap]
    /\ cacheResult = NoResult
    /\ cacheHist = [inst \in Instances |-> FreshCacheHist]
    /\ storiesHist = FreshStoriesHist
    /\ fetch = IdleFetch
    /\ dl = IdleDownload
    /\ route = IdleRoute
    /\ parse = IdleParse
    /\ pending = IdlePending
    /\ rapidCall = IdleRapid

\* the download limiter serving one caller
NextRl ==
    \/ Check("download", "1.2.3.4")
    \/ ResetFailures("download", "1.2.3.4")
    \/ Cleanup("download")
    \/ TickRl

SpecRl == Init /\ [][NextRl]_vars

\* the record a caller's third block leaves in the download limiter (the state
\* of C4_Witness, with the time of that block as the origin)
ThirdBlock ==
    [timestamps |-> [i \in 1..DownloadMaxRequests |-> Epoch], blocked |-> TRUE,
     blockedUntil |-> Epoch + DownloadBlockDurationMs, failureCount |-> 3]

ThirdBlockHist ==
    [calls |-> DownloadMaxRequests + 1, firstAt |-> Epoch, blocks |-> 3,
     rejAt |-> Epoch, rejOldest |-> Epoch, later |-> 0, after |-> 0,
     reset |-> "no"]

\* the caller is unknown to the limiter, or has just been blocked a third time
InitAdmission ==
    /\ now = Epoch
    /\ \E blocked \in BOOLEAN :
          /\ entries = [l \in Limiters |-> [id \in Identifiers |->
                            IF blocked /\ l = "download" /\ id = ClientIP
                            THEN ThirdBlock ELSE NoEntry]]
          /\ rlHist = [l \in Limiters |-> [id \in Identifiers |->
                            IF blocked /\ l = "download" /\ id = ClientIP
                            THEN ThirdBlockHist ELSE FreshHist]]
    /\ rlResult = NoResult
    /\ captchaStore = [k \in Tokens |-> NoCaptcha]
    /\ capResult = NoResult
    /\ capHist = [k \in Tokens |-> NotIssued]
    /\ dlResponse = NoResponse
    /\ client = IdleClient
    /\ served = 0
    /\ caches = [inst \in Instances |-> EmptyMap]
    /\ cacheResult = NoResult
    /\ cacheHist = [inst \in Instances |-> FreshCacheHist]
    /\ storiesHist = FreshStoriesHist
    /\ fetch = IdleFetch
    /\ dl = IdleDownload
    /\ route = IdleRoute
    /\ parse = IdleParse
    /\ pending = IdlePending
    /\ rapidCall = IdleRapid

\* the captcha issuer and the two handlers that validate, called by anyone
NextCaptcha ==
    \/ CaptchaGet
    \/ CaptchaPost
    \/ DownloadPost
    \/ CaptchaSweep
    \/ TickCaptcha

\* the caller has just been blocked a third time
InitCaptcha == InitAdmission /\ entries["download"][ClientIP] = ThirdBlock

SpecCaptcha == InitCaptcha /\ [][NextCaptcha]_vars

\* the captcha issuer alone: challenges issued, answers validated by
\* POST /api/captcha, the sweep and the clock
NextIssuer ==
    \/ CaptchaGet
    \/ CaptchaPost
    \/ CaptchaSweep
    \/ TickCaptcha

SpecIssuer == Init /\ [][NextIssuer]_vars

\* the page of one caller, its captcha dialog and the handlers they call
NextAdmission ==
    \/ ClientRequest
    \/ DialogFetch
    \/ DialogSubmit
    \/ ClientRetry
    \/ CaptchaSweep
    \/ TickCaptcha

SpecAdmission == InitAdmission /\ [][NextAdmission]_vars

\* the download limiter after a caller's third block, under check(), the
\* sweep and the passing of time, resetFailures() never called
NextSweep ==
    \/ Check("download", ClientIP)
    \/ Cleanup("download")
    \/ TickSweep

SpecSweep == InitCaptcha /\ [][NextSweep]_vars

\* one cache instance under the calls of its users and its sweep
NextCache ==
    \/ \E inst \in Instances : CacheSet(inst)
    \/ \E inst \in Instances : CacheGet(inst)
    \/ \E inst \in Instances : CacheHas(inst)
    \/ \E inst \in Instances : CacheDelete(inst)
    \/ \E inst \in Instances : CacheClear(inst)
    \/ \E inst \in Instances : CacheSize(inst)
    \/ \E inst \in Instances : CacheCleanup(inst)
    \/ TickCache

SpecCache == Init /\ [][NextCache]_vars

\* the story list cache under its helper functions and its sweep
NextStories ==
    \/ CacheStories
    \/ GetCachedStories
    \/ CacheCleanup("storyUrl")
    \/ TickCache

SpecStories == Init /\ [][NextStories]_vars

\* fetchStories calls, one at a time, with the sweeps of the caches they use
NextFetch ==
    \/ FetchStart
    \/ FetchViaStoriesIG
    \/ FetchViaInstaloader
    \/ FetchViaWebAPI
    \/ FetchSleep
    \/ FetchViaGraphQL
    \/ CacheCleanup("storyUrl")
    \/ CacheCleanup("userId")
    \/ TickFetch

SpecFetch == Init /\ [][NextFetch]_vars

\* downloadStory calls, one at a time
NextDownload ==
    \/ DownloadStoryStart
    \/ FetchViaStoriesIG
    \/ FetchViaInstaloader
    \/ FetchViaWebAPI
    \/ FetchSleep
    \/ FetchViaGraphQL
    \/ DownloadStoryResolved
    \/ DownloadStoryMedia

SpecDownload == Init /\ [][NextDownload]_vars

\* the three handlers, one request at a time, for a caller the limiter does
\* not know or has just blocked
NextRoutes ==
    \/ DownloadRoutePost
    \/ StoriesRouteGet
    \/ StoriesRouteDone
    \/ StoryDownloadRoutePost
    \/ RouteRapidAPI
    \/ RouteScraper
    \/ RouteScraperDone
    \/ RouteInstaloader
    \/ RouteYtDlp
    \/ FetchViaStoriesIG
    \/ FetchViaInstaloader
    \/ FetchViaWebAPI
    \/ FetchSleep
    \/ FetchViaGraphQL
    \/ DownloadStoryResolved
    \/ DownloadStoryMedia

SpecRoutes == InitAdmission /\ [][NextRoutes]_vars

\* the two media-list parsers on every list of raw items
NextParse ==
    \/ ParseCall("parseStoryItems")
    \/ ParseCall("StoriesIG")

SpecParse == Init /\ [][NextParse]_vars

\* one call and the dependency, if any, that never answers
NextWait ==
    \/ WaitStart
    \/ WaitSettles
    \/ WaitTimesOut

SpecWait == Init /\ [][NextWait]_vars

\* the callers of the limiters: two addresses on the download limiter, one
\* on the limiter of the internal API
Callers == {<<"download", "1.2.3.4">>, <<"download", "unknown">>,
            <<"instagramApi", "1.2.3.4">>}

\* the requests a caller is followed for, unless its record is blocked
MaxIsolationRequests == 2

\* a check() of a caller that is blocked or was counted less than
\* MaxIsolationRequests times
IsolationCheck(l, id) ==
    /\ \/ Len(EntryOrNew(l, id).timestamps) < MaxIsolationRequests
       \/ EntryOrNew(l, id).blocked
    /\ Check(l, id)

\* one caller of the download limiter starts in its third block
NextIsolation ==
    \/ \E c \in Callers : IsolationCheck(c[1], c[2])
    \/ \E c \in Callers : ResetFailures(c[1], c[2])
    \/ \E c \in Callers : GetStatusCall(c[1], c[2])

SpecIsolation == InitCaptcha /\ [][NextIsolation]_vars

\* one fetchStoriesViaRapidAPI call
NextRapid ==
    \/ RapidStart
    \/ RapidAttempt
    \/ RapidJson
    \/ RapidSleep

SpecRapid == Init /\ [][NextRapid]_vars

Next ==
    \/ NextRl \/ NextCaptcha \/ NextAdmission \/ NextCache \/ NextStories \/ NextFetch
    \/ NextSweep \/ NextIssuer
    \/ NextDownload \/ NextRoutes
    \/ NextParse \/ NextWait \/ NextIsolation \/ NextRapid

Spec == Init /\ [][Next]_vars

-----------------------------------------------------------------------------
(* Properties of the rate limiter, checked under SpecRl *)

\* the history of the record the last check() was made on
LastHist == rlHist[rlResult.lim][rlResult.id]
LastCfg == Config(rlResult.lim)
\* the last check() is the k-th call on a record that was new or reset, and is
\* made less than windowMs after the first
KthWithinWindow(k) ==
    /\ rlResult # NoResult
    /\ LastHist.calls = k
    /\ rlResult.at - LastHist.firstAt < LastCfg.windowMs

\* C1: with window W and limit N, the first N check() calls made within W on
\* an identifier are allowed and the (N+1)-th call within W is rejected.
C1_FirstNAllowedNextRejected ==
    /\ \A k \in 1..DownloadMaxRequests : KthWithinWindow(k) => rlResult.allowed
    /\ KthWithinWindow(DownloadMaxRequests + 1) => ~rlResult.allowed

\* C1 witness: an (N+1)-th call made later than the first, still within W, rejected
C1_Witness ==
    /\ KthWithinWindow(DownloadMaxRequests + 1)
    /\ rlResult.at > LastHist.firstAt
    /\ ~rlResult.allowed

\* C2 as claimed: after the (N+1)-th check() within W was rejected, a check()
\* made once W has elapsed from the oldest recorded timestamp is allowed again.
C2_AllowedOnceWindowElapsed ==
    (/\ rlResult # NoResult
     /\ LastHist.later = 1
     /\ rlResult.at >= LastHist.rejOldest + LastCfg.windowMs)
    => rlResult.allowed

\* C2 amended: after that rejection every check() made before blockDurationMs
\* has elapsed from the rejection is rejected, also when W has elapsed from the
\* oldest recorded timestamp, and the first check() made once blockDurationMs
\* has elapsed from the rejection is allowed again.
C2_AllowedOnceBlockElapsed ==
    (rlResult # NoResult /\ LastHist.later = 1) =>
        /\ rlResult.at < LastHist.rejAt + LastCfg.blockDurationMs => ~rlResult.allowed
        /\ (/\ rlResult.at >= LastHist.rejAt + LastCfg.blockDurationMs
            /\ LastHist.after = 1) => rlResult.allowed

\* C2 witness: the first check() after the block has run out, allowed
C2_Witness ==
    /\ rlResult # NoResult
    /\ LastHist.later = 1
    /\ LastHist.after = 1
    /\ rlResult.at >= LastHist.rejAt + LastCfg.blockDurationMs
    /\ rlResult.allowed

\* C3: on a new record N check() calls in quick succession return allowed with
\* remaining N-1, ..., 0 in that order; the (N+1)-th returns allowed=false,
\* blocked=true, remaining=0 and resetIn = the block duration in seconds,
\* rounded up (300 for the download limiter, N = 10).
C3_RemainingCountsDown ==
    /\ \A k \in 1..DownloadMaxRequests :
          KthWithinWindow(k) =>
              /\ rlResult.allowed
              /\ rlResult.remaining = DownloadMaxRequests - k
    /\ KthWithinWindow(DownloadMaxRequests + 1) =>
              /\ ~rlResult.allowed
              /\ rlResult.blocked
              /\ rlResult.remaining = 0
              /\ rlResult.resetIn * 1000 >= LastCfg.blockDurationMs
              /\ (rlResult.resetIn - 1) * 1000 < LastCfg.blockDurationMs
              /\ rlResult.lim = "download" => rlResult.resetIn = 300

\* C3 witness: the eleventh call at the very instant of the first, answered
\* with resetIn = 300
C3_Witness ==
    /\ KthWithinWindow(11)
    /\ rlResult.at = LastHist.firstAt
    /\ rlResult.blocked
    /\ rlResult.resetIn = 300

\* C4: every not-allowed response carries requireCaptcha = (the number of
\* times the identifier was blocked since its record was created or last reset
\* is at least 3); the responses of the first two blocks carry false.
C4_CaptchaFromThirdBlock ==
    (rlResult # NoResult /\ LastHist.calls > 0 /\ ~rlResult.allowed) =>
        rlResult.requireCaptcha = (LastHist.blocks >= 3)

\* C4 witness: the response that starts the third block asks for a captcha
C4_Witness ==
    /\ rlResult # NoResult
    /\ LastHist.calls > 0
    /\ ~rlResult.allowed
    /\ LastHist.blocks = 3
    /\ rlResult.at = LastHist.rejAt
    /\ rlResult.requireCaptcha

-----------------------------------------------------------------------------
(* Properties of the captcha issuer (SpecCaptcha) and of the caller's way    *)
(* through the dialog (SpecAdmission)                                        *)

\* the last validateCaptcha() call was made on a token that had validated
\* before, with the answer to its question, within the token's life time
Revalidation ==
    /\ capResult # NoResult
    /\ capResult.prior >= 1
    /\ capResult.correct
    /\ ~capResult.late

\* C5: validateCaptcha(token, correctAnswer) returns valid once for a generated
\* token, and a second call with the same token and the same answer returns
\* invalid with the reason "already used".
C5_SecondCallAlreadyUsed ==
    Revalidation =>
        /\ ~capResult.valid
        /\ capResult.error = "Este captcha ja foi utilizado"

\* C6: a token consumed by a correct validation, or older than its life time,
\* never validates again, whoever presents it and through whichever handler:
\* a validation that returns valid is the first of its token and is made
\* within the token's life time, so no token validates twice.
C6_ConsumedOrExpiredNeverValidates ==
    /\ \A k \in Tokens : capHist[k].valids <= 1
    /\ (capResult # NoResult /\ capResult.valid) =>
            (capResult.prior = 0 /\ ~capResult.late)

\* a token has validated once, is presented again in its life time with the
\* answer to its question, and is refused
C6_Witness ==
    /\ Revalidation
    /\ ~capResult.valid
    /\ \E k \in Tokens : capHist[k].valids = 1

\* an expired token presented with the answer to its question is refused
C6_WitnessExpired ==
    /\ capResult # NoResult
    /\ capResult.late
    /\ capResult.correct
    /\ capResult.prior = 0
    /\ ~capResult.valid

\* C7: a caller blocked by the download limiter who solves the challenge in
\* the captcha dialog and retries the download with that token and answer is
\* admitted: the retry is not answered 429.
C7_RetryAfterSolvedCaptchaAdmitted == client.retried # 429

-----------------------------------------------------------------------------
(* Properties of the cache (SpecCache, SpecStories) and of fetchStories     *)
(* (SpecFetch)                                                              *)

\* the last cache call was the lookup named
LastLookup(op) == cacheResult # NoResult /\ cacheResult.op = op

\* C8: for every instance, key and value, get(k) made before the ttl of the
\* last set(k, v, ttl) has elapsed returns v; get(k) made after it has
\* elapsed returns a miss and leaves no entry for k to count in size().
C8_GetWithinTtlHitsAfterTtlMisses ==
    LastLookup("get") =>
        /\ cacheResult.age = "before" => cacheResult.value = cacheResult.expected
        /\ cacheResult.age = "after" =>
                (cacheResult.value = Miss /\ ~cacheResult.counted)

\* a get() finds the entry of a set() whose ttl has elapsed, returns a miss
\* and removes the entry
C8_Witness ==
    /\ LastLookup("get")
    /\ cacheResult.age = "after"
    /\ cacheResult.stored
    /\ cacheResult.value = Miss
    /\ ~cacheResult.counted

\* a get() before the ttl has elapsed returns the value set
C8_WitnessHit ==
    /\ LastLookup("get")
    /\ cacheResult.age = "before"
    /\ cacheResult.value # Miss
    /\ cacheResult.value = cacheResult.expected

\* C9: getCachedStories(h') returns the data of the last cacheStories(h, data)
\* made for a handle h equal to h' up to letter case when at most 2 hours
\* have elapsed since, and a miss once more than 2 hours have elapsed.
C9_StoriesKeyedCaseInsensitively ==
    LastLookup("getCachedStories") =>
        /\ cacheResult.age \in {"before", "at"} =>
                cacheResult.value = cacheResult.expected
        /\ cacheResult.age = "after" => cacheResult.value = Miss

\* the data cached under a handle is returned for the handle in another case
C9_Witness ==
    /\ LastLookup("getCachedStories")
    /\ cacheResult.age = "before"
    /\ cacheResult.asked # cacheResult.setAs
    /\ cacheResult.value # Miss
    /\ cacheResult.value = cacheResult.expected

\* the lookup made more than 2 hours after cacheStories() misses
C9_WitnessExpired ==
    /\ LastLookup("getCachedStories")
    /\ cacheResult.age = "after"
    /\ cacheResult.stored
    /\ cacheResult.value = Miss

\* C10: within a fetchStories call a strategy is called only after every
\* strategy before it in the order has been called and has returned
\* success = false, and no strategy is called after one that returned
\* success = true.
C10_StrategiesInOrderUntilSuccess ==
    LET inv == fetch.invoked
    IN /\ \A i \in 1..Len(inv) :
             \A q \in 1..(Priority(inv[i].strategy) - 1) :
                \E j \in 1..(i - 1) :
                   inv[j].strategy = StrategyOrder[q] /\ ~inv[j].success
       /\ \A i \in 1..(Len(inv) - 1) : ~inv[i].success

\* the first strategy succeeded and fetchStories returned its result, no
\* other strategy having been called
C10_Witness ==
    /\ fetch.pc = "done"
    /\ Len(fetch.invoked) = 1
    /\ fetch.invoked[1].strategy = "StoriesIG"
    /\ fetch.invoked[1].success
    /\ fetch.result.success
    /\ fetch.result.method = "StoriesIG"

\* the four strategies were called, the last of them succeeding
C10_WitnessLast ==
    /\ fetch.pc = "done"
    /\ Len(fetch.invoked) = 4
    /\ fetch.invoked[4].success


-----------------------------------------------------------------------------
(* Properties of fetchStories and its cache, checked under SpecFetch *)

\* a list cached for the handle (up to case) is within its life time
FreshlyCached(username) == Age(storiesHist[username], now) = "before"

\* C11: a fetchStories call with skipCache = false that finds a fresh,
\* non-empty list cached for the handle returns success = true with the
\* method "Cache" and the cached items, no strategy having been called; a
\* call with skipCache = true does not consult the cache and goes to the
\* first strategy, also when a fresh non-empty list is cached, and never
\* returns the method "Cache".
C11_CacheHitServedSkipCacheBypasses ==
    /\ [][fetch'.calls # fetch.calls =>
            LET h == storiesHist[fetch'.username]
            IN /\ (~fetch'.skipCache /\ FreshlyCached(fetch'.username)) =>
                     /\ fetch'.pc = "done"
                     /\ fetch'.invoked = <<>>
                     /\ fetch'.result = Success(h.value.stories, "Cache")
               /\ fetch'.skipCache =>
                     /\ fetch'.pc = "StoriesIG"
                     /\ fetch'.result = NoResult
                     /\ caches' = caches
                     /\ cacheResult' = cacheResult]_vars
    /\ [](fetch.result # NoResult =>
            /\ fetch.result.method = "Cache" => ~fetch.skipCache /\ fetch.invoked = <<>>
            /\ fetch.skipCache => Len(fetch.invoked) >= 1)

\* the second call, with skipCache = false, is answered from the cache with
\* the list the first call stored
C11_Witness ==
    /\ fetch.pc = "done"
    /\ fetch.calls = 2
    /\ ~fetch.skipCache
    /\ fetch.invoked = <<>>
    /\ fetch.result # NoResult
    /\ fetch.result.method = "Cache"
    /\ FreshlyCached(fetch.username)
    /\ fetch.result.stories = storiesHist[fetch.username].value.stories

\* a call with skipCache = true has called a strategy while a fresh list is cached
C11_WitnessSkip ==
    /\ fetch.skipCache
    /\ fetch.calls = 2
    /\ FreshlyCached(fetch.username)
    /\ Len(fetch.invoked) = 1
    /\ fetch.invoked[1].strategy = "StoriesIG"


\* a step in which a strategy returns success = true and fetchStories returns
StrategySucceeds ==
    /\ fetch.pc \in Strategies
    /\ fetch'.pc = "done"
    /\ fetch'.result.success

\* the list fetchStories has just returned is what getCachedStories() gives
\* for the handle
ReturnedListCached ==
    LET got == StoriesLookup(caches', fetch'.username, now')
    IN got.value # Miss /\ got.value.stories = fetch'.result.stories

\* C12: whenever a strategy makes fetchStories return success = true, the
\* returned list is in the story list cache under the lower-cased handle when
\* the call returns, so that a fetchStories call for the handle that follows
\* at once with skipCache = false is answered from the cache.
C12_SuccessIsCached ==
    [][StrategySucceeds => ReturnedListCached]_vars

\* the same for the strategies other than GraphQL
C12_SuccessIsCachedUnlessGraphQL ==
    [][StrategySucceeds /\ fetch'.result.method # "GraphQL" => ReturnedListCached]_vars

\* the same seen from the next call: a call with skipCache = false for the
\* handle of a call that has just returned success = true is answered from
\* the cache
C12_FollowingCallServed ==
    [][(/\ fetch.pc = "done"
        /\ fetch.result.success
        /\ fetch'.calls # fetch.calls
        /\ fetch'.username = fetch.username
        /\ ~fetch'.skipCache
        /\ fetch.invoked # <<>>
        /\ Age(storiesHist[fetch.username], now) \in {"none", "before"})
       => fetch'.result = Success(fetch.result.stories, "Cache")]_vars

-----------------------------------------------------------------------------
(* Properties of downloadStory, checked under SpecDownload *)

\* the list fetchStories returned to the downloadStory call
ResolvedStories == fetch.result.stories

\* C13: downloadStory reports success only if the transfer ended with a
\* success status (2xx) and a body of at least 1000 bytes; a transfer with
\* status 200 and a shorter body (500 or 999 bytes) is reported as a failure.
C13_SuccessNeedsOkStatusAndMinimumLength ==
    dl.pc = "done" =>
        /\ dl.result.success =>
              /\ dl.transfer # NoTransfer
              /\ ~dl.transfer.thrown
              /\ dl.transfer.status \in 200..299
              /\ dl.transfer.length >= 1000
              /\ dl.result.buffer = Buffer(dl.transfer.length)
        /\ (/\ dl.transfer # NoTransfer
            /\ ~dl.transfer.thrown
            /\ dl.transfer.status = 200
            /\ dl.transfer.length < 1000) =>
              /\ ~dl.result.success
              /\ dl.result.error = "Failed to download media or file too small"

\* status 200 with a body of 500 bytes: a failure
C13_Witness ==
    /\ dl.pc = "done"
    /\ dl.transfer = Response(200, 500)
    /\ ~dl.result.success

\* status 200 with a body of 1000 bytes: a success
C13_WitnessSuccess ==
    /\ dl.pc = "done"
    /\ dl.transfer = Response(200, 1000)
    /\ dl.result.success

\* no id of the list equals the id asked for, holds it, or is held by it
NoIdMatches ==
    \A i \in 1..Len(ResolvedStories) :
        /\ ResolvedStories[i].id # dl.storyId
        /\ ~Includes(ResolvedStories[i].id, dl.storyId)
        /\ ~Includes(dl.storyId, ResolvedStories[i].id)

\* C14: when fetchStories succeeded with a non-empty list none of whose ids
\* matches the id asked for, by equality or as a substring, downloadStory
\* downloads the first item of the list and does not fail with "Story not
\* found".
C14_NoMatchFallsBackToFirstItem ==
    (/\ dl.pc \in {"downloadMedia", "done"}
     /\ fetch.result.success
     /\ Len(ResolvedStories) > 0
     /\ NoIdMatches) =>
        /\ dl.target = 1
        /\ dl.requests = <<ResolvedStories[1].url>>
        /\ dl.pc = "done" => dl.result.error # "Story not found"

\* the id "9" asked of a list of two: the first item was downloaded
C14_Witness ==
    /\ dl.pc = "done"
    /\ dl.storyId = <<"9">>
    /\ fetch.result.success
    /\ Len(ResolvedStories) = 2
    /\ NoIdMatches
    /\ dl.target = 1
    /\ dl.result.success

\* the items whose id is the id asked for
ExactMatches == {i \in 1..Len(ResolvedStories) : ResolvedStories[i].id = dl.storyId}

\* the items whose id holds the id asked for or is held by it
SubstringMatches ==
    {i \in 1..Len(ResolvedStories) :
        \/ Includes(ResolvedStories[i].id, dl.storyId)
        \/ Includes(dl.storyId, ResolvedStories[i].id)}

\* the item has been chosen
Chosen == dl.pc \in {"downloadMedia", "done"} /\ fetch.result.success

\* an item with the id asked for is chosen before any other, whatever the order
C15_ExactMatchPreferred ==
    (Chosen /\ ExactMatches # {}) => dl.target \in ExactMatches

\* without an exact match, an item matching as a substring in either
\* direction is chosen
C15_SubstringEitherDirection ==
    (Chosen /\ ExactMatches = {} /\ SubstringMatches # {}) => dl.target \in SubstringMatches

\* C15: downloadStory chooses an item whose id equals the id asked for in
\* preference to one that only matches as a substring, whatever the order of
\* the list; only without an exact match is a substring match used, in either
\* direction (the item's id holds the id asked for, or is held by it).
C15_ExactFirstThenSubstringEitherWay ==
    C15_ExactMatchPreferred /\ C15_SubstringEitherDirection

\* C16: if fetchStories fails, downloadStory returns success = false with
\* the very error fetchStories returned, and no download request is made.
C16_FetchFailureHandedOnNoDownload ==
    /\ dl.pc = "fetchStories" => dl.requests = <<>> /\ dl.transfer = NoTransfer
    /\ (dl.pc \in {"downloadMedia", "done"} /\ ~fetch.result.success) =>
          /\ dl.pc = "done"
          /\ ~dl.result.success
          /\ dl.result.error = fetch.result.error
          /\ dl.requests = <<>>
          /\ dl.transfer = NoTransfer

\* the four strategies failed and downloadStory returned the error of fetchStories
C16_Witness ==
    /\ dl.pc = "done"
    /\ Len(fetch.invoked) = 4
    /\ ~fetch.result.success
    /\ fetch.result.error = "Nenhum story ativo no momento."
    /\ dl.result = DownloadFailure("Nenhum story ativo no momento.")
    /\ dl.requests = <<>>

-----------------------------------------------------------------------------
(* Properties of resetFailures, checked under SpecRl *)

\* a step in which resetFailures(id) is called on the download limiter
ResetStep(id) ==
    /\ rlHist'["download"][id] # rlHist["download"][id]
    /\ rlHist'["download"][id].calls = 0
    /\ rlHist'["download"][id].reset # "no"

\* C17: resetFailures(id) on an existing record sets failureCount to 0,
\* clears the block and empties the timestamps, whatever the record was; the
\* check(id) that follows is allowed with remaining = maxRequests - 1 and so
\* are the maxRequests - 1 checks after it within the window, remaining going
\* down by one each; resetFailures(id) where there is no record changes
\* nothing and creates no record.
C17_ResetFailuresClearsRecord ==
    /\ [][\A id \in Identifiers :
            ResetStep(id) =>
                /\ rlResult' = rlResult
                /\ \A other \in Identifiers \ {id} :
                       entries'["download"][other] = entries["download"][other]
                /\ IF entries["download"][id] = NoEntry
                   THEN entries'["download"][id] = NoEntry
                   ELSE entries'["download"][id] =
                            [timestamps |-> <<>>, blocked |-> FALSE,
                             blockedUntil |-> 0, failureCount |-> 0]]_vars
    /\ [](\A id \in Identifiers :
            rlHist["download"][id].reset = "absent" => entries["download"][id] = NoEntry)
    /\ [](\A k \in 1..DownloadMaxRequests :
            (KthWithinWindow(k) /\ LastHist.reset \in {"open", "blocked"}) =>
                /\ rlResult.allowed
                /\ rlResult.remaining = DownloadMaxRequests - k)

\* a blocked record was reset, and the check that followed was allowed with
\* remaining = maxRequests - 1
C17_Witness ==
    /\ KthWithinWindow(1)
    /\ LastHist.reset = "blocked"
    /\ rlResult.allowed
    /\ rlResult.remaining = DownloadMaxRequests - 1

\* the maxRequests-th check after the reset of a blocked record, allowed
C17_WitnessLast ==
    /\ KthWithinWindow(DownloadMaxRequests)
    /\ LastHist.reset = "blocked"
    /\ rlResult.allowed
    /\ rlResult.remaining = 0

\* resetFailures was called where there is no record, and there is none
C17_WitnessAbsent ==
    /\ rlHist["download"]["1.2.3.4"].reset = "absent"
    /\ entries["download"]["1.2.3.4"] = NoEntry

-----------------------------------------------------------------------------
(* Properties of the two gates on what they do not know, checked under     *)
(* SpecAdmission                                                            *)

\* validateCaptcha() on a token the store does not hold is rejected
UnknownTokenRejected ==
    (capResult # NoResult /\ ~capResult.stored) =>
        /\ ~capResult.valid
        /\ capResult.error = "Captcha invalido ou expirado"

\* a step in which check(id) finds no record on the download limiter (only
\* check() creates records)
CheckWithoutRecord(id) ==
    /\ entries["download"][id] = NoEntry
    /\ entries'["download"][id] # NoEntry

\* C18 as claimed: validateCaptcha on an unknown token is rejected, and
\* check() on an identifier whose record is missing is rejected, never allowed.
C18_UnknownTokenAndMissingRecordRejected ==
    /\ []UnknownTokenRejected
    /\ [][\A id \in Identifiers : CheckWithoutRecord(id) => ~rlResult'.allowed]_vars

\* C18: validateCaptcha on a token the store does not hold is rejected;
\* check() on an identifier whose record is missing creates the record and
\* allows the request, with remaining = maxRequests - 1.
C18_UnknownTokenRejectedMissingRecordAllowed ==
    /\ []UnknownTokenRejected
    /\ [][\A id \in Identifiers :
            CheckWithoutRecord(id) =>
                /\ rlResult'.allowed
                /\ rlResult'.remaining = DownloadMaxRequests - 1
                /\ ~rlResult'.requireCaptcha
                /\ entries'["download"][id] = [NewEntry EXCEPT !.timestamps = <<now>>]]_vars

\* the first request of a caller the limiter has no record of was admitted
C18_Witness ==
    /\ rlHist["download"][ClientIP].calls = 1
    /\ rlResult # NoResult
    /\ rlResult.allowed
    /\ rlResult.remaining = DownloadMaxRequests - 1
    /\ dlResponse # NoResponse
    /\ dlResponse.status = 200

\* a validation of a token the store does not hold was rejected
C18_WitnessToken ==
    /\ capResult # NoResult
    /\ ~capResult.stored
    /\ ~capResult.valid

-----------------------------------------------------------------------------
(* Properties of the handlers, checked under SpecRoutes *)

\* the request being served has reached fetchStories or downloadStory
ReachedOrchestrator == route.pc \in {"fetchStories", "downloadStory"}

\* C19: every request that reaches fetchStories or downloadStory has had
\* RateLimiter.check called for its caller and has been admitted; no handler
\* calls them without that.
C19_OrchestratorOnlyAfterAdmission ==
    ReachedOrchestrator => route.checked /\ route.admitted

\* the same for POST /api/download alone
C19_DownloadHandlerAdmits ==
    (route.handler = "download" /\ route.pc \notin {"idle", "done"}) =>
        /\ route.admitted
        /\ rlResult # NoResult
        /\ rlResult.allowed
        /\ rlResult.id = ClientIP

\* a caller the download limiter has blocked is served by GET /api/instagram/stories
C19_BlockedCallerServed ==
    /\ route.handler = "stories"
    /\ ReachedOrchestrator
    /\ entries["download"][ClientIP] # NoEntry
    /\ entries["download"][ClientIP].blocked
    /\ now < entries["download"][ClientIP].blockedUntil

\* the methods the story branch has to offer a request, in order
Applicable(method) ==
    CASE method = "RapidAPI"    -> route.rapid
      [] method = "scraper"     -> TRUE
      [] method = "Instaloader" -> HasSessionFile(route.session)
      [] method = "yt-dlp"      -> HasSession(route.session)

\* the methods run so far
Tried == {route.tried[i].method : i \in 1..Len(route.tried)}

\* C20: for an Instagram story url, POST /api/download runs RapidAPI (only
\* when configured), then the scraper engine, then Instaloader (only with a
\* session file), then yt-dlp with cookies (only with a session or cookies
\* file); a method runs only when every method before it that applies has
\* run and left no file, and the request fails only when every method that
\* applies has run and left none.
C20_StoryMethodsInOrderUntilFile ==
    (route.handler = "download" /\ route.storyInfo) =>
        LET t == route.tried
        IN /\ \A i \in 1..Len(t) : Applicable(t[i].method)
           /\ \A i \in 1..Len(t) : \A j \in (i + 1)..Len(t) :
                 MethodRank(t[i].method) < MethodRank(t[j].method)
           /\ \A i \in 1..(Len(t) - 1) : ~t[i].file
           /\ \A i \in 1..Len(t) : \A m \in Methods :
                 (MethodRank(m) < MethodRank(t[i].method) /\ Applicable(m)) => m \in Tried
           /\ (route.pc = "done" /\ route.status # 200) =>
                 /\ \A m \in Methods : Applicable(m) => m \in Tried
                 /\ \A i \in 1..Len(t) : ~t[i].file
           /\ (route.pc = "done" /\ route.status = 200) => t[Len(t)].file

\* the four methods ran, none left a file, the request failed
C20_Witness ==
    /\ route.handler = "download"
    /\ route.storyInfo
    /\ route.pc = "done"
    /\ route.status = 400
    /\ Len(route.tried) = 4
    /\ \A i \in 1..4 : route.tried[i].method = MethodOrder[i] /\ ~route.tried[i].file

\* without RapidAPI and with cookies only: the scraper, then yt-dlp, which
\* left the file
C20_WitnessCookies ==
    /\ route.handler = "download"
    /\ route.pc = "done"
    /\ route.status = 200
    /\ ~route.rapid
    /\ route.session = "cookies"
    /\ route.tried = <<[method |-> "scraper", file |-> FALSE],
                       [method |-> "yt-dlp", file |-> TRUE]>>

-----------------------------------------------------------------------------
(* Properties of the final error of fetchStories, checked under SpecFetch *)

\* the two messages of fetchStories when all methods failed
NoActiveContent == "Nenhum story ativo no momento."
CouldNotReach == "Nao foi possivel obter os stories. Tente novamente mais tarde."

\* fetchStories has returned after its four strategies failed
AllStrategiesFailed ==
    /\ fetch.pc = "done"
    /\ fetch.result # NoResult
    /\ fetch.result.method = "All"

\* the errors with which a strategy tells that it reached the site and found
\* no item
NoItemErrors == {"No stories available", "No stories found"}

\* the errors the strategies of the current call have returned
RecordedErrors == {fetch.invoked[i].error : i \in 1..Len(fetch.invoked)}

\* C21: when all strategies fail, the message is "no active content"
\* whenever some strategy reached the site and found zero items, and "could
\* not reach" only when no strategy did.
C21_NoContentToldFromUnreachable ==
    AllStrategiesFailed =>
        /\ RecordedErrors \cap NoItemErrors # {} => fetch.result.error = NoActiveContent
        /\ fetch.result.error = CouldNotReach => RecordedErrors \cap NoItemErrors = {}

\* what the code does: the message follows the error of fetchViaStoriesIG alone
C21_MessageFollowsStoriesIG ==
    AllStrategiesFailed =>
        /\ fetch.result.error \in {NoActiveContent, CouldNotReach}
        /\ fetch.result.error = NoActiveContent
              <=> fetch.invoked[1].error = "No stories available"

\* the search control was missing on the StoriesIG page, the Web API found
\* the account without items: the message is "could not reach"
C21_ReachedButToldUnreachable ==
    /\ AllStrategiesFailed
    /\ fetch.invoked[1].error = "StoriesIG page layout changed"
    /\ fetch.invoked[3].error = "No stories available"
    /\ fetch.result.error = CouldNotReach

\* the errors that tell a private account or a missing login
SpecificErrors == {"Profile is private", "No Instagram session - login required"}

\* what a final message tells its reader
MessageKind(message) ==
    CASE message = NoActiveContent -> "empty"
      [] message = CouldNotReach -> "unavailable"
      [] message \in SpecificErrors -> "specific"
      [] OTHER -> "raw"

\* C22: when all strategies fail and one of them recorded a private account
\* or a missing login, the final error tells that error and no generic one;
\* and the final error is one normalized message, never the text of a strategy.
C22_FinalErrorPrefersMostSpecific ==
    AllStrategiesFailed =>
        /\ RecordedErrors \cap SpecificErrors # {}
              => MessageKind(fetch.result.error) = "specific"
        /\ fetch.result.error \notin RecordedErrors

\* what the code does: one of its two messages, whatever was recorded
C22_FinalMessageNormalized ==
    AllStrategiesFailed =>
        /\ fetch.result.error \in {NoActiveContent, CouldNotReach}
        /\ fetch.result.error \notin RecordedErrors

\* the Web API found the account private, and the final error is the
\* generic one
C22_PrivateToldUnavailable ==
    /\ AllStrategiesFailed
    /\ fetch.invoked[3].error = "Profile is private"
    /\ fetch.result.error = CouldNotReach

-----------------------------------------------------------------------------
(* Properties of the boundaries of the strategies, checked under SpecFetch *)

\* a strategy of the current call has thrown instead of returning a result
SomeStrategyThrew == \E i \in 1..Len(fetch.invoked) : fetch.invoked[i].thrown

\* C29: no strategy throws past its own boundary: whatever fails inside
\* fetchViaStoriesIG, fetchViaInstaloader, fetchViaWebAPI or fetchViaGraphQL,
\* the strategy returns a result with success = false and an error, and
\* fetchStories never rejects.
C29_NoStrategyThrows ==
    /\ ~SomeStrategyThrew
    /\ \A i \in 1..Len(fetch.invoked) :
          ~fetch.invoked[i].success => fetch.invoked[i].error # "none"
    /\ fetch.result # NoResult => ~fetch.result.thrown

\* what the code does: the three other strategies return whatever fails
\* inside them, and fetchStories rejects only with what fetchViaInstaloader threw
C29_OnlyInstaloaderThrows ==
    /\ \A i \in 1..Len(fetch.invoked) :
          /\ fetch.invoked[i].thrown => fetch.invoked[i].strategy = "Instaloader"
          /\ ~fetch.invoked[i].success => fetch.invoked[i].error # "none"
    /\ (fetch.result # NoResult /\ fetch.result.thrown) =>
          /\ SomeStrategyThrew
          /\ fetch.result.error = SessionDirError

\* the listing of the session directory threw and fetchStories rejected,
\* the Web API and GraphQL never called
C29_FetchStoriesRejected ==
    /\ fetch.pc = "done"
    /\ fetch.result = Rejected(SessionDirError)
    /\ Len(fetch.invoked) = 2
    /\ fetch.invoked[2].strategy = "Instaloader"
    /\ fetch.invoked[2].thrown

\* an error thrown inside the try of a strategy came back as its result
C29_CaughtInside ==
    /\ Len(fetch.invoked) = 3
    /\ \A i \in 1..3 : fetch.invoked[i].error = CaughtError /\ ~fetch.invoked[i].thrown

-----------------------------------------------------------------------------
(* Properties of the browser of fetchViaStoriesIG, checked under SpecFetch *)

\* fetchViaStoriesIG has returned and no other strategy has been called since
StoriesIGReturned == Len(fetch.invoked) = 1 /\ fetch.pc \in {"Instaloader", "done"}

C30_WitnessClosedAgain ==
    /\ StoriesIGReturned
    /\ fetch.browser.closeCalls = 2
    /\ fetch.browser.released = "closed"

\* the strategy succeeded with its browser closed
C30_WitnessSuccess ==
    /\ StoriesIGReturned
    /\ fetch.result # NoResult
    /\ fetch.result.method = "StoriesIG"
    /\ fetch.browser.launched
    /\ fetch.browser.released = "closed"

-----------------------------------------------------------------------------
(* Properties of check() on a blocked record, checked under SpecRl *)

\* a step in which check(id) is called on the download limiter
CheckStep(id) ==
    /\ now' = now
    /\ rlResult' # NoResult
    /\ rlResult'.id = id
    /\ rlResult'.at = now
    /\ entries'["download"][id] # NoEntry
    /\ ~ResetStep(id)
    /\ \/ rlResult' # rlResult
       \/ rlHist'["download"][id] # rlHist["download"][id]

\* C23: while the record is blocked and now < blockedUntil, every check()
\* is refused with resetIn = ceil((blockedUntil - now) / 1000) and leaves the
\* record as it was: blockedUntil is not moved, failureCount not incremented,
\* no timestamp recorded, however many calls are made.
C23_BlockedCheckLeavesRecord ==
    /\ [][\A id \in Identifiers :
            LET e == entries["download"][id]
            IN (e # NoEntry /\ e.blocked /\ now < e.blockedUntil /\ CheckStep(id)) =>
                  /\ entries'["download"][id] = e
                  /\ ~rlResult'.allowed
                  /\ rlResult'.blocked
                  /\ rlResult'.remaining = 0
                  /\ rlResult'.resetIn = CeilDiv(e.blockedUntil - now, 1000)
                  /\ rlResult'.requireCaptcha = (e.failureCount >= CaptchaThreshold)]_vars
    /\ [](\A id \in Identifiers :
            LET e == entries["download"][id]
                h == rlHist["download"][id]
            IN (e # NoEntry /\ e.blocked /\ now < e.blockedUntil /\ h.rejAt # NoTime) =>
                  /\ e.blockedUntil = h.rejAt + DownloadBlockDurationMs
                  /\ e.failureCount = h.blocks
                  /\ Len(e.timestamps) = DownloadMaxRequests
                  /\ \A i \in 1..Len(e.timestamps) : e.timestamps[i] <= h.rejAt)

\* a check made half a window into the block: refused, 270 seconds left
C23_Witness ==
    /\ rlResult # NoResult
    /\ LastHist.later = 1
    /\ ~rlResult.allowed
    /\ rlResult.at = LastHist.rejAt + (DownloadWindowMs \div 2)
    /\ rlResult.resetIn = CeilDiv(DownloadBlockDurationMs - (DownloadWindowMs \div 2), 1000)
    /\ entries["download"][rlResult.id].blockedUntil
          = LastHist.rejAt + DownloadBlockDurationMs

\* C24: the first check() made at or after blockedUntil opens the record
\* with an empty window and is itself allowed with remaining =
\* maxRequests - 1 (its own timestamp the only one recorded), failureCount
\* keeping the value it had during the block.
C24_FirstCheckAfterBlockOpens ==
    [][\A id \in Identifiers :
         LET e == entries["download"][id]
         IN (e # NoEntry /\ e.blocked /\ now >= e.blockedUntil /\ CheckStep(id)) =>
               /\ entries'["download"][id] =
                     [timestamps |-> <<now>>, blocked |-> FALSE,
                      blockedUntil |-> e.blockedUntil, failureCount |-> e.failureCount]
               /\ rlResult'.allowed
               /\ ~rlResult'.blocked
               /\ rlResult'.remaining = DownloadMaxRequests - 1]_vars

\* the check made at the instant blockedUntil: allowed, the record open with
\* one timestamp and the failure count of the block
C24_Witness ==
    /\ rlResult # NoResult
    /\ LastHist.later = 1
    /\ LastHist.after = 1
    /\ rlResult.at = LastHist.rejAt + DownloadBlockDurationMs
    /\ rlResult.allowed
    /\ rlResult.remaining = DownloadMaxRequests - 1
    /\ entries["download"][rlResult.id] =
          [timestamps |-> <<rlResult.at>>, blocked |-> FALSE,
           blockedUntil |-> rlResult.at, failureCount |-> LastHist.blocks]
    /\ LastHist.blocks >= 1

-----------------------------------------------------------------------------
(* Properties of the sweep of the rate limiter, checked under SpecSweep:   *)
(* the caller has been blocked three times and resetFailures() is not      *)
(* called.                                                                  *)

\* the failure count the limiter holds for a caller
FailureCount(e) == IF e = NoEntry THEN 0 ELSE e.failureCount

\* C25: without resetFailures(id), under check() calls, the passing of time
\* and the sweeps, the failure count of the identifier never decreases, so
\* once three blocks have occurred every later refusal asks for a captcha.
C25_EscalationLeftOnlyByReset ==
    /\ [][\A id \in Identifiers :
            FailureCount(entries'["download"][id])
                >= FailureCount(entries["download"][id])]_vars
    /\ [](rlResult # NoResult /\ ~rlResult.allowed => rlResult.requireCaptcha)

\* the observable half of C25: every refusal after the third block asks for
\* a captcha
C25_LaterRefusalsAskCaptcha ==
    rlResult # NoResult /\ ~rlResult.allowed => rlResult.requireCaptcha

\* what the code does: the count never decreases while the record is kept
C25_CountKeptWithRecord ==
    [][\A id \in Identifiers :
         entries'["download"][id] # NoEntry =>
            FailureCount(entries'["download"][id])
                >= FailureCount(entries["download"][id])]_vars

\* the record of the third block was swept away, and the block that came
\* after it asks for no captcha
C25_EscalationForgotten ==
    /\ rlResult # NoResult
    /\ ~rlResult.allowed
    /\ ~rlResult.requireCaptcha
    /\ entries["download"][ClientIP].failureCount = 1

\* C26: the sweep deletes a record only once now - max(latest timestamp,
\* blockedUntil) > windowMs + blockDurationMs; it never deletes a record
\* that is blocked (now < blockedUntil) or that has a timestamp inside the
\* trailing window, so the record it deletes had no block in force and its
\* full quota.
C26_SweepPurgesOnlyIdleRecords ==
    [][\A id \in Identifiers :
         LET e == entries["download"][id]
             status == GetStatus("download", id, now)
         IN (e # NoEntry /\ entries'["download"][id] = NoEntry) =>
               /\ now - SeqMax(e.timestamps, e.blockedUntil)
                     > DownloadWindowMs + DownloadBlockDurationMs
               /\ ~(e.blocked /\ now < e.blockedUntil)
               /\ \A i \in 1..Len(e.timestamps) :
                     e.timestamps[i] <= now - DownloadWindowMs
               /\ ~status.blocked
               /\ status.remaining = DownloadMaxRequests]_vars

\* the record of the third block, swept one millisecond after it had been
\* idle for window + block duration
C26_Witness ==
    /\ entries["download"][ClientIP] = NoEntry
    /\ now = Epoch + DownloadBlockDurationMs
                + DownloadWindowMs + DownloadBlockDurationMs + 1

\* the same record at the age window + block duration exactly: kept
C26_WitnessKept ==
    /\ entries["download"][ClientIP] = ThirdBlock
    /\ now = Epoch + DownloadBlockDurationMs + DownloadWindowMs + DownloadBlockDurationMs

-----------------------------------------------------------------------------
(* Properties of a wrong answer, checked under SpecIssuer *)

\* the numbers that are not the answer of the entry
WrongNumber(inp, entry) == inp.denotes # NaN /\ inp.denotes # Num(entry.answer)

\* C27: validateCaptcha with a number that is not the answer returns
\* invalid "wrong answer" and leaves the entry as it was: whatever wrong
\* attempts were made, a validation of the same token with the right answer
\* before the token expires returns valid.
C27_WrongAnswerLeavesEntry ==
    /\ [][(capResult' # capResult /\ capResult'.error = "Resposta incorreta")
            => captchaStore' = captchaStore /\ ~capResult'.valid]_vars
    /\ [](\A token \in Tokens, inp \in AnswerInputs :
            LET entry == captchaStore[token]
                val == ValidateCaptcha(captchaStore, token, inp.answer, now)
            IN (entry # NoCaptcha /\ now <= entry.expiresAt /\ WrongNumber(inp, entry)) =>
                  /\ val.result = [valid |-> FALSE, error |-> "Resposta incorreta"]
                  /\ val.store = captchaStore)
    /\ [](capResult # NoResult =>
            /\ (capResult.retry /\ capResult.stored /\ ~capResult.late /\ capResult.correct)
                  => capResult.valid
            /\ capResult.error = "Resposta incorreta"
                  => capResult.stored /\ ~capResult.late /\ ~capResult.correct)

\* the one token issued was answered with a wrong number, then with the right
\* one: valid
C27_Witness ==
    /\ capResult # NoResult
    /\ capResult.valid
    /\ capResult.retry
    /\ capResult.prior = 0
    /\ capHist[1].issued
    /\ \A k \in Tokens \ {1} : ~capHist[k].issued

\* the one token issued was answered with a wrong number at the last instant
\* of its life: the entry is still in the store
C27_WitnessIntact ==
    /\ capResult # NoResult
    /\ capResult.error = "Resposta incorreta"
    /\ capHist[1].issued
    /\ \A k \in Tokens \ {1} : ~capHist[k].issued
    /\ captchaStore[1] # NoCaptcha
    /\ now = captchaStore[1].expiresAt


-----------------------------------------------------------------------------
(* Expiry of the cache under every interleaving of its calls (SpecCache)     *)

\* the ttl of the last set() of the key has elapsed at time t
TtlElapsed(inst, key, t) == Age(cacheHist[inst][key], t) = "after"

\* C28: under any interleaving of set, get, has, delete and the periodic
\* sweep with time passing, get(k) never returns a value whose ttl has
\* elapsed and has(k) is never true for such a key; the sweep removes every
\* entry whose ttl has elapsed and no other entry; and no entry leaves the
\* Map before its ttl has elapsed unless a delete(), clear() or set() names it.
C28_NoStaleValueSweepExact ==
    /\ [](\A inst \in Instances, key \in CacheKeys :
            LET entry == caches[inst][key]
                got == MapGet(caches[inst], key, now)
                has == MapHas(caches[inst], key, now)
                swept == MapCleanup(caches[inst], now)
            IN /\ entry # NoCacheEntry =>
                     entry.expiresAt = cacheHist[inst][key].at + cacheHist[inst][key].ttl
               /\ TtlElapsed(inst, key, now) => (got.value = Miss /\ ~has.value)
               /\ got.value # Miss => got.value = cacheHist[inst][key].value
               /\ (entry # NoCacheEntry /\ TtlElapsed(inst, key, now)) =>
                     swept[key] = NoCacheEntry
               /\ ~TtlElapsed(inst, key, now) => swept[key] = entry)
    /\ [](LastLookup("get") /\ cacheResult.value # Miss => cacheResult.age \in {"before", "at"})
    /\ [][\A inst \in Instances, key \in CacheKeys :
            (/\ caches[inst][key] # NoCacheEntry
             /\ caches'[inst][key] = NoCacheEntry
             /\ cacheHist'[inst][key] = cacheHist[inst][key])
                => TtlElapsed(inst, key, now)]_vars

\* the sweep has acted between two calls: since the last set() no get(),
\* has(), delete() or size() was made, the entry of one key is gone, its ttl
\* elapsed, and the entry of the other key, set earlier than now, is kept
C28_Witness ==
    /\ cacheResult = NoResult
    /\ \E inst \in Instances, k1 \in OpKeys, k2 \in OpKeys :
          /\ k1 # k2
          /\ TtlElapsed(inst, k1, now)
          /\ caches[inst][k1] = NoCacheEntry
          /\ caches[inst][k2] # NoCacheEntry
          /\ cacheHist[inst][k2].at < now
          /\ ~TtlElapsed(inst, k2, now)

\* a get() at the very instant the entry expires still returns the value
C28_WitnessAtExpiry ==
    /\ LastLookup("get")
    /\ cacheResult.age = "at"
    /\ cacheResult.value # Miss
    /\ cacheResult.counted

\* has() answered false for a key whose entry was still stored, its ttl elapsed
C28_WitnessHas ==
    /\ LastLookup("has")
    /\ ~cacheResult.value
    /\ \E inst \in Instances, key \in OpKeys :
          /\ TtlElapsed(inst, key, now)
          /\ caches[inst][key] = NoCacheEntry


-----------------------------------------------------------------------------
(* The account id of the handle in the strategies (SpecFetch)                *)

\* getCachedUserId(username) finds the id of the handle of the call
IdKnown == UserIdLookup(caches, fetch.username, now).value # Miss

\* the strategy named is called and returns in this step
StrategyReturns(strategy) == fetch.pc = strategy /\ fetch'.pc # strategy

\* C31: fetchViaWebAPI consults the cache of account ids before it asks the
\* network for the id of the handle, asks the network only on a miss, and
\* writes the id to the cache on a fresh lookup: when the cache holds the id
\* the call makes no lookup and so writes no entry.
C31_WebAPILooksUpOnlyOnMiss ==
    [][(StrategyReturns("WebAPI") /\ IdKnown) => caches'["userId"] = caches["userId"]]_vars

\* fetchViaGraphQL, which calls getUserId(), leaves the entry of a known id
\* as it is
C31_GraphQLLooksUpOnlyOnMiss ==
    [][(StrategyReturns("GraphQL") /\ IdKnown) => caches'["userId"] = caches["userId"]]_vars

\* the id was looked up afresh and written to the cache by a call of
\* fetchViaWebAPI that failed: the entry expires a full ttl after the call
C31_FreshLookupCached ==
    /\ fetch.pc = "sleep"
    /\ caches["userId"][ToLowerCase(fetch.username)] # NoCacheEntry
    /\ caches["userId"][ToLowerCase(fetch.username)].expiresAt = now + USER_ID_TTL
    /\ now > Epoch


-----------------------------------------------------------------------------
(* The media-list parsers on every list of raw items (SpecParse)             *)

\* url is the url of a rendition of rs than which none is wider
Widest(rs, url) ==
    \E i \in 1..Len(rs) :
        /\ rs[i].url = url
        /\ \A j \in 1..Len(rs) : rs[j].width <= rs[i].width

\* the raw item carries a rendition of some kind
HasMedia(item) == Len(item.video_versions) > 0 \/ Len(item.candidates) > 0

\* the positions of the raw items that carry a rendition, in input order
KeptPositions(items) == SelectSeq([i \in 1..Len(items) |-> i], LAMBDA i : HasMedia(items[i]))

\* the kind and the primary url asked of the item parsed from a raw item
UrlAsSpecified(item, story) ==
    IF Len(item.video_versions) > 0
    THEN story.mediaType = "video" /\ Widest(item.video_versions, story.url)
    ELSE story.mediaType = "image" /\ Widest(item.candidates, story.url)

\* the thumbnail asked of it: the widest companion image of a video (none
\* if it has no companion), none for an image
ThumbnailAsSpecified(item, story) ==
    IF Len(item.video_versions) > 0 /\ Len(item.candidates) > 0
    THEN Widest(item.candidates, story.thumbnailUrl)
    ELSE story.thumbnailUrl = Undefined

\* the items returned are those of the raw items that carry a rendition, in
\* input order, each as P(raw item, item) asks
ParsedAs(P(_, _)) ==
    LET kept == KeptPositions(parse.items)
    IN /\ Len(parse.stories) = Len(kept)
       /\ \A k \in 1..Len(kept) :
             /\ parse.stories[k].id = kept[k]
             /\ P(parse.items[kept[k]], parse.stories[k])

\* C32: for every raw item parsed by the media-list parsers, an item with
\* video renditions yields a video item whose url is the highest-width video
\* rendition and whose thumbnail is the highest-width companion image; an
\* item with only image renditions yields an image item whose url is the
\* highest-width image and which has no thumbnail; an item with neither is
\* dropped; the output follows the input order.
C32_ParsedAsSpecified ==
    ParsedAs(LAMBDA item, story : UrlAsSpecified(item, story) /\ ThumbnailAsSpecified(item, story))

\* what both parsers do: the kind, the widest rendition as the url, the
\* items without renditions dropped, the input order kept
C32_UrlWidestOrderKept == ParsedAs(UrlAsSpecified)

\* parseStoryItems gives an image item no thumbnail
C32_ImageWithoutThumbnailInParseStoryItems ==
    parse.parser = "parseStoryItems" =>
        \A k \in 1..Len(parse.stories) :
            parse.stories[k].mediaType = "image" => parse.stories[k].thumbnailUrl = Undefined

\* a video item whose thumbnail is the first companion image while the
\* second is wider
C32_ThumbnailNotWidest ==
    /\ parse.parser = "parseStoryItems"
    /\ Len(parse.stories) = 2
    /\ parse.stories[1].mediaType = "video"
    /\ parse.stories[1].url = "v640"
    /\ parse.stories[1].thumbnailUrl = "i320"
    /\ Widest(parse.items[1].candidates, "i640")

\* the loop of fetchViaStoriesIG gives an image item its own url as thumbnail
C32_ImageWithThumbnail ==
    /\ parse.parser = "StoriesIG"
    /\ \E k \in 1..Len(parse.stories) :
          /\ parse.stories[k].mediaType = "image"
          /\ parse.stories[k].thumbnailUrl = parse.stories[k].url

\* a raw item without renditions dropped between two that are kept
C32_Dropped ==
    /\ parse.parser # "none"
    /\ Len(parse.items) = 2
    /\ ~HasMedia(parse.items[1])
    /\ Len(parse.stories) = 1
    /\ parse.stories[1].id = 2


-----------------------------------------------------------------------------
(* A dependency that never answers (SpecWait)                                *)

\* the call awaits the dependency that hangs
AwaitsHung == pending.pc = "waiting" /\ WaitSteps[pending.step].name = pending.hangs

\* C33: every fetchStories and downloadStory call eventually returns a
\* result even if a single dependency hangs forever, because every
\* suspending step is bounded by its own timeout: a call that awaits the
\* dependency that hangs has a timer armed that will end the wait.
C33_EveryWaitBounded ==
    AwaitsHung => (TimerArmed(pending.step) # NoTimer /\ ENABLED WaitTimesOut)

\* the navigation, the external process and the response headers are
\* bounded: a call that awaits one of them goes on, whether it hangs or not
C33_TimedStepsGoOn ==
    (pending.pc = "waiting" /\ WaitSteps[pending.step].timer # NoTimer)
        => ENABLED (WaitSettles \/ WaitTimesOut)

\* a call that has not returned and cannot go on is one that awaits, with
\* no timer, the dependency that hangs
C33_StuckOnlyWithoutTimer ==
    (pending.pc = "waiting" /\ ~ENABLED (WaitSettles \/ WaitTimesOut))
        => (AwaitsHung /\ WaitSteps[pending.step].timer = NoTimer)

\* downloadStory awaits the body of the media, which never comes, and no
\* step of the call is enabled
C33_StuckOnBody ==
    /\ pending.call = "downloadStory"
    /\ AwaitsHung
    /\ WaitSteps[pending.step].name = "media response.arrayBuffer"
    /\ ~ENABLED (WaitSettles \/ WaitTimesOut)

\* a call returned although the headers of a request never came
C33_ReturnedAfterTimeout ==
    /\ pending.pc = "returned"
    /\ pending.hangs = "reels fetch"
    /\ now = Epoch + 15000


-----------------------------------------------------------------------------
(* The fourth strategy of fetchStories (SpecFetch)                           *)

\* the order the strategies are described in: browser automation, the
\* session-authenticated external process, the direct API, and the scrape of
\* the profile page followed by the API (fetchViaHTMLScraping)
DescribedOrder == <<"StoriesIG", "Instaloader", "WebAPI", "HTML">>

\* the strategies called so far by the fetchStories call, in the order of the calls
InvokedOrder == [i \in 1..Len(fetch.invoked) |-> fetch.invoked[i].strategy]

\* fetchStories returned the failure of all strategies
OverallFailure == fetch.pc = "done" /\ fetch.result # NoResult /\ fetch.result.method = "All"

\* C34: fetchStories attempts the four strategies strictly in the order
\* browser automation, external process, direct API, HTML scrape then API:
\* the strategies called are the first ones of that order, and when the
\* first three have failed the HTML-scrape-then-API strategy is attempted
\* before the overall failure is returned.
C34_HTMLScrapeTriedBeforeFailure ==
    /\ InvokedOrder = SubSeq(DescribedOrder, 1, Len(InvokedOrder))
    /\ OverallFailure => InvokedOrder = DescribedOrder

\* what fetchStories does: the overall failure is returned after the four
\* strategies it calls, the fourth of which is fetchViaGraphQL
C34_FourthIsGraphQL ==
    /\ InvokedOrder = SubSeq(StrategyOrder, 1, Len(InvokedOrder))
    /\ OverallFailure => InvokedOrder = StrategyOrder

\* the overall failure returned, the scrape of the profile page never tried
C34_FailedWithoutHTMLScrape ==
    /\ OverallFailure
    /\ Len(fetch.invoked) = 4
    /\ \A i \in 1..4 : fetch.invoked[i].strategy # "HTML" /\ ~fetch.invoked[i].success


-----------------------------------------------------------------------------
(* The records of the two limiters and of two identifiers (SpecIsolation)    *)

\* every record but the one of id in limiter l is after the step what it was
OthersUntouched(l, id) ==
    \A m \in Limiters, j \in Identifiers :
        (m # l \/ j # id) => entries'[m][j] = entries[m][j]

\* C35: check(id), resetFailures(id) and getStatus(id) on a limiter never
\* change the record of another identifier nor any record of the other
\* limiter, and getStatus changes no record at all.
C35_RecordsIsolated ==
    [][\A l \in Limiters, id \in Identifiers :
          /\ (Check(l, id) \/ ResetFailures(l, id) \/ GetStatusCall(l, id))
                => OthersUntouched(l, id)
          /\ GetStatusCall(l, id) => entries' = entries]_vars

\* getStatus answered for a caller whose record is open while another
\* caller of the same limiter is blocked and the other limiter has counted
\* one request of the blocked caller
C35_Witness ==
    /\ rlResult # NoResult
    /\ "status" \in DOMAIN rlResult
    /\ rlResult.lim = "download" /\ rlResult.id = "unknown"
    /\ rlResult.status.requestsInWindow = 1
    /\ ~rlResult.status.blocked
    /\ entries["download"]["1.2.3.4"] # NoEntry
    /\ entries["download"]["1.2.3.4"].blocked
    /\ entries["instagramApi"]["1.2.3.4"] # NoEntry
    /\ Len(entries["instagramApi"]["1.2.3.4"].timestamps) = 1
    /\ entries["instagramApi"]["unknown"] = NoEntry


-----------------------------------------------------------------------------
(* The size of a record and the allowed responses (SpecRl)                   *)

\* C36: in every reachable state a rate-limit record holds at most
\* maxRequests timestamps, and every allowed response has
\* 0 <= remaining <= maxRequests - 1 with blocked = false and
\* requireCaptcha = false.
C36_RecordBoundedAllowedInRange ==
    /\ \A l \in Limiters, id \in Identifiers :
          entries[l][id] # NoEntry =>
              Len(entries[l][id].timestamps) <= Config(l).maxRequests
    /\ (rlResult # NoResult /\ rlResult.allowed) =>
          /\ rlResult.remaining >= 0
          /\ rlResult.remaining <= Config(rlResult.lim).maxRequests - 1
          /\ ~rlResult.blocked
          /\ ~rlResult.requireCaptcha

\* the record is full: the request that filled it was allowed with nothing
\* remaining, after an earlier block of the caller
C36_Witness ==
    /\ rlResult # NoResult
    /\ rlResult.allowed
    /\ rlResult.remaining = 0
    /\ entries[rlResult.lim][rlResult.id] # NoEntry
    /\ Len(entries[rlResult.lim][rlResult.id].timestamps) = DownloadMaxRequests
    /\ entries[rlResult.lim][rlResult.id].failureCount >= 1


-----------------------------------------------------------------------------
(* Lists without items (SpecFetch)                                           *)

\* the result is a success that carries no item
EmptySuccess(result) == result.success /\ Len(result.stories) = 0

\* C37: every result with success = true returned by fetchStories or by any
\* strategy carries a non-empty item list (a resolution that finds no item
\* is reported with success = false), and the cache of resolved lists never
\* stores an empty item list.
C37_SuccessHasItemsCacheHasItems ==
    /\ fetch.result # NoResult => ~EmptySuccess(fetch.result)
    /\ \A outcome \in StoriesIGOutcomes \cup InstaloaderOutcomes \cup WebAPIOutcomes
                      \cup GraphQLOutcomes(TRUE) \cup GraphQLOutcomes(FALSE) :
          /\ ~EmptySuccess(outcome.result)
          /\ outcome.cached => Len(outcome.result.stories) > 0
    /\ \A key \in CacheKeys :
          caches["storyUrl"][key] # NoCacheEntry =>
              Len(caches["storyUrl"][key].value.stories) > 0

\* the third strategy found the account and no item: it failed with
\* "No stories available", nothing was cached for the handle, and the
\* fourth strategy returned a list that fetchStories handed on
C37_Witness ==
    /\ fetch.pc = "done"
    /\ Len(fetch.invoked) = 4
    /\ fetch.invoked[3].error = "No stories available"
    /\ fetch.result.success
    /\ Len(fetch.result.stories) > 0
    /\ caches["storyUrl"][ToLowerCase(fetch.username)] = NoCacheEntry

\* a list served from the cache
C37_WitnessCache ==
    /\ fetch.pc = "done"
    /\ fetch.result.success
    /\ fetch.result.method = "Cache"
    /\ Len(fetch.result.stories) > 0


-----------------------------------------------------------------------------
(* The retries of fetchStoriesViaRapidAPI (SpecRapid)                        *)

\* the responses after which the request is made again
Retried == {429, 500, NoStatus}

\* at most 3 requests; a 401, 403 or 404 response ends the call at once; a
\* 429, another non-OK status or a thrown error is followed by a backoff
\* and another request until the third, after which success = false is
\* returned; a call that returned after a response made no request since
RapidRetryDiscipline ==
    LET r == rapidCall.responses
        n == Len(r)
    IN /\ n <= RapidMaxRetries
       /\ n = rapidCall.attempt \/ (rapidCall.pc = "fetch" /\ n = rapidCall.attempt - 1)
            \/ (rapidCall.pc = "done" /\ n = RapidMaxRetries /\ r[n] = 429)
       /\ \A i \in 1..(n - 1) : r[i] \in Retried \cup {200}
       /\ (n > 0 /\ r[n] \in {401, 403, 404}) =>
             (rapidCall.pc = "done" /\ ~rapidCall.result.success)
       /\ (n > 0 /\ r[n] \in Retried /\ n < RapidMaxRetries) =>
             \/ rapidCall.pc = "sleep" /\ rapidCall.attempt = n /\ rapidCall.wait > 0
             \/ rapidCall.pc = "fetch" /\ rapidCall.attempt = n + 1
       /\ (n = RapidMaxRetries /\ r[n] \in Retried /\ rapidCall.pc = "done") =>
             ~rapidCall.result.success
       /\ (n = RapidMaxRetries /\ r[n] \in {500, NoStatus}) => rapidCall.pc = "done"

\* a call in progress can take its next step
RapidGoesOn ==
    rapidCall.pc \in {"fetch", "json", "sleep"}
        => ENABLED (RapidAttempt \/ RapidJson \/ RapidSleep)

\* C38: fetchStoriesViaRapidAPI performs at most 3 HTTP attempts and always
\* returns a result: a 401, 403 or 404 response ends the call immediately
\* without retry, while 429, any other non-OK status and thrown errors are
\* retried after a backoff until the third attempt, after which
\* success = false is returned.
C38_AtMostThreeAttemptsAlwaysReturns == RapidRetryDiscipline /\ RapidGoesOn

\* the part of C38 that the loop keeps: the attempts and what ends them
C38_RetryDiscipline == RapidRetryDiscipline

\* a call is stuck only while it awaits a body that never arrives
C38_StuckOnlyOnBody ==
    (rapidCall.pc \in {"fetch", "json", "sleep"}
        /\ ~ENABLED (RapidAttempt \/ RapidJson \/ RapidSleep))
            => (rapidCall.pc = "json" /\ rapidCall.body = "never")

\* the headers of the third response came with status 200 after a 429 and a
\* thrown error, the body never does, and the call has not returned
C38_StuckOnBody ==
    /\ rapidCall.pc = "json"
    /\ rapidCall.body = "never"
    /\ rapidCall.responses = <<429, NoStatus, 200>>
    /\ ~ENABLED (RapidAttempt \/ RapidJson \/ RapidSleep)

\* three requests answered 429, 500 and 500: the call returned the failure
\* after backoffs of 2 s and 2 s
C38_ThreeAttemptsFailed ==
    /\ rapidCall.pc = "done"
    /\ rapidCall.responses = <<429, 500, 500>>
    /\ ~rapidCall.result.success
    /\ rapidCall.result.error = "HTTP 500"
    /\ now = Epoch + 4000

\* a 404 on the second request ended the call
C38_EndedWithoutRetry ==
    /\ rapidCall.pc = "done"
    /\ Len(rapidCall.responses) = 2
    /\ rapidCall.responses[2] = 404
    /\ rapidCall.result.error = "User not found or no stories"

=============================================================================
